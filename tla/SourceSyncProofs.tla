-------------------------- MODULE SourceSyncProofs --------------------------
(***************************************************************************)
(* Proofs about SourceSync for any set of assets and sidecars and any      *)
(* number of edits, lost events and failed runs.                           *)
(***************************************************************************)
EXTENDS SourceSync, FiniteSetTheorems, SequenceTheorems, TLAPS

Points ==
    {"idle", "build", "apply", "upsert", "sidecars", "walk", "buildAssets", "buildSidecars",
     "reconcile", "store", "removed", "sidecarUpserts", "publish"}
Events == [path : Paths, op : {"WRITE", "CREATE", "REMOVE", "RENAME"}] \cup {FullRescan}
VariantType == [etag : Nat, source : Nat]
RunType ==
    [pc : Points, full : BOOLEAN, work : SUBSET (Paths \cup Nat), cur : {<<>>} \cup (Paths \X Nat),
     deleted : SUBSET Paths, changed : SUBSET Paths,
     deletedSidecars : SUBSET Sidecars, changedSidecars : SUBSET Sidecars,
     files : [Paths -> Nat], scanned : [Paths -> Nat], sidecars : [Sidecars -> VariantType]]

\* A run that numbers the changes it has seen has seen the first ones.
SeenInOrder == run.pc = "build" => \E k \in 0 .. Len(batch) : run.work = 1 .. k

\* The asset between its two halves is there.
CurType == run.pc \in {"upsert", "sidecars", "store"} => run.cur \in Paths \X Nat

Types ==
    /\ disk \in [Paths -> Nat] /\ edits \in Nat
    /\ notify \in Seq(Events) /\ changes \in Seq(Events)
    /\ pending \in Seq(Events) /\ batch \in Seq(Events)
    /\ run \in RunType
    /\ assets \in [Paths -> Nat] /\ variants \in [Sidecars -> VariantType]
    /\ SeenInOrder /\ CurType

(***************************************************************************)
(* VariantsMatchAssets and what it needs at each point of a run: the asset *)
(* that is being replaced has no variants, and what a full run has scanned *)
(* is consistent and gets into the catalog assets first.                   *)
(***************************************************************************)
noVariantsOf(a) == \A s \in Sidecars : Owner[s] = a => variants[s] = NoVariant
Reconciling == {"reconcile", "store", "removed", "sidecarUpserts"}

IncrementalMatches ==
    /\ run.pc \in {"upsert", "sidecars"} => run.cur \in Assets \X Nat /\ run.cur[2] # 0
    /\ run.pc = "upsert" => noVariantsOf(run.cur[1])
    /\ run.pc = "sidecars" =>
         /\ assets[run.cur[1]] = run.cur[2]
         /\ run.work \subseteq {s \in Sidecars : Owner[s] = run.cur[1]}

ScanMatches ==
    /\ run.pc = "walk" => \A p \in Paths : run.scanned[p] = 0
    /\ run.pc = "buildAssets" =>
         \A p \in assetFiles(run.files) \ run.work : run.scanned[p] # 0
    /\ run.pc = "buildSidecars" =>
         /\ run.work \subseteq {s \in Sidecars : isSidecar(run.files, s)}
         /\ \A p \in assetFiles(run.files) : run.scanned[p] # 0
    /\ run.pc \in {"walk", "buildAssets"} => \A s \in Sidecars : run.sidecars[s] = NoVariant
    /\ run.pc \in {"buildSidecars"} \cup Reconciling =>
         \A s \in Sidecars : run.sidecars[s] # NoVariant =>
            run.scanned[Owner[s]] # 0 /\ run.sidecars[s].source = run.scanned[Owner[s]]

ReconcileMatches ==
    /\ run.pc \in {"reconcile", "store"} => \A p \in run.work : p \in Paths /\ run.scanned[p] # 0
    /\ run.pc \in {"reconcile", "store"} =>
         \A p \in Paths \ run.work : run.scanned[p] # 0 =>
            assets[p] = run.scanned[p] \/ (run.pc = "store" /\ run.cur[1] = p)
    /\ run.pc = "store" =>
         /\ run.cur \in Paths \X Nat /\ run.cur[2] = run.scanned[run.cur[1]] /\ run.cur[2] # 0
         /\ assets[run.cur[1]] = run.cur[2] \/ noVariantsOf(run.cur[1])
    /\ run.pc \in {"removed", "sidecarUpserts"} =>
         \A p \in Paths : run.scanned[p] # 0 => assets[p] = run.scanned[p]
    /\ run.pc \in {"reconcile", "store", "removed"} => \A p \in run.deleted : run.scanned[p] = 0

Matching == VariantsMatchAssets /\ IncrementalMatches /\ ScanMatches /\ ReconcileMatches

(***************************************************************************)
(* FullRescanIsExact and what it needs while no file has changed since the *)
(* walk began.                                                             *)
(***************************************************************************)
OnlyScansAreFull == run.pc \in {"build", "apply", "upsert", "sidecars"} => ~run.full

Exact ==
    clean /\ run.full =>
      /\ run.pc = "walk" => \A p \in Paths \ run.work : run.files[p] = disk[p]
      /\ run.pc \in {"buildAssets", "buildSidecars"} => run.files = disk
      /\ run.pc = "buildAssets" =>
           /\ run.work \subseteq assetFiles(disk)
           /\ \A p \in Paths : run.scanned[p] = IF p \in assetFiles(disk) \ run.work THEN disk[p] ELSE 0
      /\ run.pc \in {"buildSidecars"} \cup Reconciling => run.scanned = ScanOf(disk)[1]
      /\ run.pc = "buildSidecars" =>
           \A s \in Sidecars : run.sidecars[s] = IF s \in run.work THEN NoVariant ELSE ScanOf(disk)[2][s]
      /\ run.pc \in Reconciling => run.sidecars = ScanOf(disk)[2]
      /\ run.pc \in {"reconcile", "store", "removed"} =>
           \A p \in Paths : run.scanned[p] = 0 => assets[p] = 0 \/ p \in run.deleted
      /\ run.pc = "sidecarUpserts" =>
           /\ assets = run.scanned
           /\ \A s \in Sidecars : variants[s] # run.sidecars[s] => s \in run.work \cup run.deletedSidecars
           /\ run.deletedSidecars \subseteq {s \in Sidecars : run.sidecars[s] = NoVariant}
      /\ run.pc = "publish" => InSync
-----------------------------------------------------------------------------
(***************************************************************************)
(* OwnerFacts: a sidecar belongs to an asset, which is no sidecar.         *)
(***************************************************************************)
LEMMA OwnerFacts ==
    /\ \A s \in Sidecars : Owner[s] \in Assets /\ Owner[s] \in Paths /\ Owner[s] \notin Sidecars
    /\ \A s \in Sidecars : s \in Paths
    /\ \A a \in Assets : a \in Paths
BY OwnerAssumption DEF Paths

(***************************************************************************)
(* ScanFacts: the two parts of a scan.                                     *)
(***************************************************************************)
LEMMA ScanFacts ==
    ASSUME NEW f
    PROVE  /\ ScanOf(f)[1] = [p \in Paths |-> IF isSidecar(f, p) THEN 0 ELSE f[p]]
           /\ ScanOf(f)[2] = [s \in Sidecars |->
                IF isSidecar(f, s) /\ f[s] \notin BadVersions
                  THEN [etag |-> f[s], source |-> f[Owner[s]]] ELSE NoVariant]
BY DEF ScanOf

(***************************************************************************)
(* IdleRunType: the run that every run begins from is well-formed.         *)
(***************************************************************************)
LEMMA IdleRunType == idleRun \in RunType
BY DEF idleRun, RunType, Points, nothing, NoVariant, VariantType

(***************************************************************************)
(* TypesInit: the catalog begins as the scan of the files that are there.  *)
(***************************************************************************)
LEMMA TypesInit == Init => Types
<1> SUFFICES ASSUME Init PROVE Types
  OBVIOUS
<1>1. disk \in [Paths -> Nat] /\ edits \in Nat
  BY DEF Init
<1>2. assets \in [Paths -> Nat]
  <2>1. assets = [p \in Paths |-> IF isSidecar(disk, p) THEN 0 ELSE disk[p]]
    BY ScanFacts DEF Init
  <2> QED
    BY <1>1, <2>1
<1>3. variants \in [Sidecars -> VariantType]
  <2>1. variants = [s \in Sidecars |->
                     IF isSidecar(disk, s) /\ disk[s] \notin BadVersions
                       THEN [etag |-> disk[s], source |-> disk[Owner[s]]] ELSE NoVariant]
    BY ScanFacts DEF Init
  <2> QED
    BY <1>1, <2>1, OwnerFacts DEF NoVariant, VariantType
<1>4. run \in RunType /\ SeenInOrder /\ CurType
  BY IdleRunType DEF Init, SeenInOrder, CurType, idleRun
<1>5. notify \in Seq(Events) /\ changes \in Seq(Events) /\ pending \in Seq(Events) /\ batch \in Seq(Events)
  BY DEF Init
<1> QED
  BY <1>1, <1>2, <1>3, <1>4, <1>5 DEF Types

(***************************************************************************)
(* SeenFacts: seen is the number of the last change a building run has     *)
(* looked at.                                                              *)
(***************************************************************************)
LEMMA SeenFacts ==
    ASSUME Types, run.pc = "build"
    PROVE  seen \in 0 .. Len(batch) /\ run.work = 1 .. seen
<1>1. PICK k \in 0 .. Len(batch) : run.work = 1 .. k
  BY DEF Types, SeenInOrder
<1>2. k \in Nat /\ Len(batch) \in Nat
  BY LenProperties DEF Types
<1>3. Cardinality(1 .. k) = k
  BY <1>2, FS_Interval
<1> QED
  BY <1>1, <1>2, <1>3 DEF seen

(***************************************************************************)
(* ChangeFacts: the change a building run looks at next.                   *)
(***************************************************************************)
LEMMA ChangeFacts ==
    ASSUME Types, building
    PROVE  /\ change \in Events
           /\ change.op \notin {"overflow"} => change.path \in Paths
           /\ seen \in Nat /\ run.work \cup {seen + 1} = 1 .. seen + 1 /\ seen + 1 \in 0 .. Len(batch)
<1>1. seen \in 0 .. Len(batch) /\ run.work = 1 .. seen
  BY SeenFacts DEF building
<1>2. Len(batch) \in Nat
  BY LenProperties DEF Types
<1>3. seen + 1 \in 1 .. Len(batch)
  BY <1>1, <1>2 DEF building
<1>4. change \in Events
  BY <1>3, ElementOfSeq DEF change, Types
<1>5. change.op # "overflow" => change.path \in Paths
  BY <1>4 DEF Events, FullRescan
<1> QED
  BY <1>1, <1>2, <1>3, <1>4, <1>5

(***************************************************************************)
(* TypesOutside: files, watcher and the begin and end of runs keep types.  *)
(***************************************************************************)
LEMMA TypesOutside ==
    ASSUME Types,
           \/ EditFiles \/ WatchEvent \/ RecordPending \/ FlushPending
           \/ StartIncremental \/ StartScheduled \/ Publish \/ ReadError
    PROVE  Types'
<1> USE DEF Types, CurType
<1>1. CASE EditFiles
  <2>1. ASSUME NEW newDisk \in [Paths -> Nat], NEW events \in Seq(Events), Edit(newDisk, events)
        PROVE  Types'
    <3>1. notify' \in Seq(Events)
      <4>1. notify \o events \in Seq(Events)
        BY ConcatProperties
      <4> QED
        BY <2>1, <4>1 DEF Edit
    <3> QED
      BY <2>1, <3>1 DEF Edit, SeenInOrder, cat
  <2>2. \A p \in Paths : \A op \in {"WRITE", "CREATE", "REMOVE", "RENAME"} : Change(p, op) \in Events
    BY DEF Change, Events
  <2>a. \A p \in Paths, v \in Nat : [disk EXCEPT ![p] = v] \in [Paths -> Nat]
    OBVIOUS
  <2>b. edits + 1 \in Nat
    OBVIOUS
  <2>3. ASSUME NEW p \in Paths, WriteFile(p) PROVE Types'
    <3>1. <<Change(p, "WRITE")>> \in Seq(Events)
      BY <2>2
    <3> QED
      BY <2>1, <2>3, <2>a, <2>b, <3>1 DEF WriteFile
  <2>4. ASSUME NEW p \in Paths, RemoveFile(p) PROVE Types'
    <3>1. <<Change(p, "REMOVE")>> \in Seq(Events)
      BY <2>2
    <3> QED
      BY <2>1, <2>4, <2>a, <3>1 DEF RemoveFile
  <2>5. ASSUME NEW p \in Paths, NEW q \in Paths, RenameFile(p, q) PROVE Types'
    <3>1. [disk EXCEPT ![p] = 0, ![q] = edits + 1] \in [Paths -> Nat]
      <4> DEFINE removed == [disk EXCEPT ![p] = 0]
      <4>1. removed \in [Paths -> Nat]
        BY <2>a
      <4>2. [disk EXCEPT ![p] = 0, ![q] = edits + 1] = [removed EXCEPT ![q] = edits + 1]
        OBVIOUS
      <4> HIDE DEF removed
      <4> QED
        BY <4>1, <4>2, <2>b
    <3>2. <<Change(p, "RENAME"), Change(q, "CREATE")>> \in Seq(Events)
      BY <2>2
    <3> QED
      BY <2>1, <2>5, <3>1, <3>2 DEF RenameFile
  <2> QED
    BY <1>1, <2>3, <2>4, <2>5 DEF EditFiles
<1>2. CASE WatchEvent
  <2>1. Head(notify) \in Events /\ Tail(notify) \in Seq(Events)
    BY <1>2, HeadTailProperties DEF WatchEvent
  <2>2. <<Head(notify)>> \in Seq(Events) /\ <<FullRescan>> \in Seq(Events)
    BY <2>1 DEF Events
  <2> QED
    BY <1>2, <2>1, <2>2 DEF WatchEvent, emitWatchChange, SeenInOrder, source, cat
<1>3. CASE RecordPending
  <2>1. Head(changes) \in Events
    BY <1>3, HeadTailProperties DEF RecordPending
  <2> QED
    BY <1>3, <2>1, AppendProperties DEF RecordPending, SeenInOrder, source, cat
<1>4. CASE FlushPending
  <2>1. SeenInOrder'
    <3>1. SUFFICES ASSUME run.pc = "build" PROVE \E k \in 0 .. Len(pending) : run.work = 1 .. k
      BY <1>4 DEF FlushPending, SeenInOrder
    <3>2. run.work = 1 .. 0
      BY <1>4, <3>1 DEF FlushPending, SeenInOrder
    <3> QED
      BY <3>2, LenProperties
  <2> QED
    BY <1>4, <2>1 DEF FlushPending, source, cat
<1>5. CASE StartIncremental
  <2>1. run' \in RunType /\ run'.work = {} /\ run'.pc = "build" /\ UNCHANGED batch
    BY <1>5, IdleRunType DEF StartIncremental, RunType, Points, idleRun, watch
  <2>2. SeenInOrder'
    BY <2>1, LenProperties DEF SeenInOrder
  <2> QED
    BY <1>5, <2>1, <2>2 DEF StartIncremental, source, watch, cat
<1>6. CASE StartScheduled
  <2>1. run' \in RunType /\ run'.pc = "walk"
    BY <1>6, IdleRunType DEF StartScheduled, beginWalk, RunType, Points
  <2> QED
    BY <1>6, <2>1 DEF StartScheduled, SeenInOrder, source, watch, cat
<1>7. CASE Publish \/ ReadError
  <2>1. run' \in RunType /\ run'.pc = "idle" /\ batch' \in Seq(Events)
    <3>1. endRun
      BY <1>7 DEF Publish, ReadError, abort
    <3>2. run' = idleRun /\ batch' \in {<<>>, batch}
      BY <3>1 DEF endRun
    <3>3. run' \in RunType /\ run'.pc = "idle"
      BY <3>2, IdleRunType DEF idleRun
    <3>4. <<>> \in Seq(Events)
      OBVIOUS
    <3> QED
      BY <3>2, <3>3, <3>4
  <2> QED
    BY <1>7, <2>1 DEF Publish, ReadError, abort, SeenInOrder, source, cat
<1> QED
  BY <1>1, <1>2, <1>3, <1>4, <1>5, <1>6, <1>7

(***************************************************************************)
(* RunTypes: a step of a run that is past its build only has to keep the   *)
(* types of the run and the catalog.                                       *)
(***************************************************************************)
LEMMA RunTypes ==
    ASSUME Types, UNCHANGED <<source, watch>>, run' \in RunType, run'.pc # "build", CurType',
           assets' \in [Paths -> Nat], variants' \in [Sidecars -> VariantType]
    PROVE  Types'
BY DEF Types, SeenInOrder, source, watch

(***************************************************************************)
(* VariantFacts: what the steps of a run write is well-formed.             *)
(***************************************************************************)
LEMMA VariantFacts ==
    ASSUME Types
    PROVE  /\ NoVariant \in VariantType
           /\ \A a : withoutVariantsOf(a) \in [Sidecars -> VariantType]
           /\ \A s \in Sidecars, h \in Nat : BuildSourceSidecarVariant(s, h) \in VariantType
           /\ \A s \in Sidecars : scannedSidecar(s) \in VariantType
<1>1. NoVariant \in VariantType
  BY DEF NoVariant, VariantType
<1>2. \A a : withoutVariantsOf(a) \in [Sidecars -> VariantType]
  BY <1>1 DEF withoutVariantsOf, Types
<1>3. \A s \in Sidecars, h \in Nat : BuildSourceSidecarVariant(s, h) \in VariantType
  BY OwnerFacts DEF BuildSourceSidecarVariant, Types, VariantType
<1>4. ASSUME NEW s \in Sidecars PROVE scannedSidecar(s) \in VariantType
  <2>1. run.scanned[Owner[s]] \in Nat /\ run.files[s] \in Nat
    BY OwnerFacts DEF Types, RunType
  <2>2. [etag |-> run.files[s], source |-> run.scanned[Owner[s]]] \in VariantType
    BY <2>1 DEF VariantType
  <2> QED
    BY <1>1, <1>3, <2>1, <2>2 DEF scannedSidecar
<1> QED
  BY <1>1, <1>2, <1>3, <1>4

(***************************************************************************)
(* TypesIncremental: a step of an incremental run keeps the types.         *)
(***************************************************************************)
LEMMA TypesIncremental ==
    ASSUME Types, SyncIncrementally
    PROVE  Types'
<1> USE VariantFacts DEF Types, CurType, RunType, Points, quietly, recording, catalogKept, cat
<1>1. CASE RecordWrite \/ RecordDelete
  <2>1. building
    BY <1>1 DEF RecordWrite, RecordDelete
  <2>2. change.path \in Paths
    BY <1>1, <2>1, ChangeFacts DEF RecordWrite, RecordDelete
  <2>3. recordAssetWrite(change.path) \in RunType /\ recordAssetDelete(change.path) \in RunType
    BY <2>2 DEF recordAssetWrite, recordAssetDelete
  <2>4. run' \in RunType /\ run'.work = run.work \cup {seen + 1} /\ run'.pc = "build"
    <3>a. seen + 1 \in Nat
      BY <2>1, ChangeFacts
    <3>1. \A r \in RunType : /\ [r EXCEPT !.work = @ \cup {seen + 1}] \in RunType
                             /\ [r EXCEPT !.work = @ \cup {seen + 1}].work = r.work \cup {seen + 1}
                             /\ [r EXCEPT !.work = @ \cup {seen + 1}].pc = r.pc
      BY <3>a
    <3>2. /\ recordAssetWrite(change.path).work = run.work /\ recordAssetWrite(change.path).pc = run.pc
          /\ recordAssetDelete(change.path).work = run.work /\ recordAssetDelete(change.path).pc = run.pc
      BY DEF recordAssetWrite, recordAssetDelete
    <3>3. PICK r \in {recordAssetWrite(change.path), recordAssetDelete(change.path)} :
            run' = [r EXCEPT !.work = @ \cup {seen + 1}]
      BY <1>1 DEF RecordWrite, RecordDelete
    <3>4. r \in RunType /\ r.work = run.work /\ r.pc = "build"
      BY <2>1, <2>3, <3>2 DEF building
    <3> HIDE DEF RunType
    <3> QED
      BY <3>1, <3>3, <3>4
  <2>5. UNCHANGED <<source, watch, cat>>
    BY <1>1 DEF RecordWrite, RecordDelete
  <2>6. SeenInOrder'
    BY <2>1, <2>4, <2>5, ChangeFacts DEF SeenInOrder, watch
  <2> QED
    BY <2>4, <2>5, <2>6 DEF source, watch
<1>2. CASE FallBackToFull
  BY <1>2, IdleRunType, RunTypes DEF FallBackToFull, beginWalk
<1>3. CASE NormalizeTargets
  BY <1>3, RunTypes DEF NormalizeTargets, normalizeIncrementalTargets
<1>4. CASE UpsertChangedAsset
  <2>1. run' \in RunType /\ run'.pc # "build" /\ CurType'
    BY <1>4, OwnerFacts DEF UpsertChangedAsset
  <2>2. assets' \in [Paths -> Nat]
    BY <1>4 DEF UpsertChangedAsset
  <2> QED
    BY <1>4, <2>1, <2>2, RunTypes DEF UpsertChangedAsset
<1>5. CASE SidecarsRebuilt
  BY <1>5, RunTypes DEF SidecarsRebuilt
<1>6. CASE IncrementalDone
  BY <1>6, RunTypes DEF IncrementalDone, to
<1>7. ASSUME NEW a \in Assets, ProcessDeletedAsset(a) PROVE Types'
  BY <1>7, RunTypes, OwnerFacts DEF ProcessDeletedAsset
<1>8. ASSUME NEW a \in Assets, VanishedAsset(a) PROVE Types'
  BY <1>8, IdleRunType DEF VanishedAsset, abort, endRun, source, SeenInOrder, idleRun
<1>9. ASSUME NEW a \in Assets, ProcessChangedAsset(a) PROVE Types'
  <2>1. a \in Paths /\ disk[a] \in Nat
    BY OwnerFacts
  <2>2. run' \in RunType /\ run'.pc # "build" /\ CurType'
    <3>1. CASE assets[a] = disk[a]
      <4>1. run' = [run EXCEPT !.changed = @ \ {a}] /\ run.pc = "apply"
        BY <1>9, <3>1 DEF ProcessChangedAsset
      <4> QED
        BY <4>1
    <3>2. CASE assets[a] # disk[a]
      <4>1. <<a, disk[a]>> \in Paths \X Nat
        BY <2>1
      <4>2. run' = [run EXCEPT !.pc = "upsert", !.cur = <<a, disk[a]>>, !.changed = @ \ {a}]
        BY <1>9, <3>2 DEF ProcessChangedAsset
      <4> QED
        BY <4>1, <4>2
    <3> QED
      BY <3>1, <3>2
  <2>3. variants' \in [Sidecars -> VariantType]
    BY <1>9 DEF ProcessChangedAsset
  <2> QED
    BY <1>9, <2>2, <2>3, RunTypes DEF ProcessChangedAsset
<1>10. ASSUME NEW s \in Sidecars, ProcessDeletedSidecar(s) PROVE Types'
  BY <1>10, RunTypes DEF ProcessDeletedSidecar
<1>11. ASSUME NEW s \in Sidecars, RebuildSidecar(s) PROVE Types'
  <2>1. run' \in RunType /\ run'.pc # "build" /\ CurType'
    BY <1>11 DEF RebuildSidecar
  <2>2. variants' \in [Sidecars -> VariantType]
    BY <1>11 DEF RebuildSidecar
  <2> QED
    BY <1>11, <2>1, <2>2, RunTypes DEF RebuildSidecar
<1>12. ASSUME NEW s \in Sidecars, ProcessChangedSidecar(s) PROVE Types'
  BY <1>12, RunTypes, OwnerFacts DEF ProcessChangedSidecar
<1> QED
  BY <1>1, <1>2, <1>3, <1>4, <1>5, <1>6, <1>7, <1>8, <1>9, <1>10, <1>11, <1>12 DEF SyncIncrementally

(***************************************************************************)
(* TypesFull: a step of a full run keeps the types.                        *)
(***************************************************************************)
LEMMA TypesFull ==
    ASSUME Types, SyncFull
    PROVE  Types'
<1> USE VariantFacts DEF Types, CurType, RunType, Points, quietly, recording, catalogKept, cat
<1>1. CASE WalkDone
  BY <1>1, RunTypes DEF WalkDone, assetFiles
<1>2. CASE AssetsBuilt
  BY <1>2, RunTypes, OwnerFacts DEF AssetsBuilt
<1>3. CASE SidecarsBuilt
  BY <1>3, RunTypes DEF SidecarsBuilt
<1>4. CASE StoreScannedAsset
  <2>1. run' \in RunType /\ run'.pc = "reconcile"
    BY <1>4 DEF StoreScannedAsset
  <2>2. assets' \in [Paths -> Nat]
    BY <1>4 DEF StoreScannedAsset
  <2> QED
    BY <1>4, <2>1, <2>2, RunTypes DEF StoreScannedAsset
<1>5. CASE AssetsReconciled
  BY <1>5, RunTypes DEF AssetsReconciled, to
<1>6. CASE RemovedReconciled
  BY <1>6, RunTypes, OwnerFacts DEF RemovedReconciled
<1>7. CASE FullDone
  BY <1>7, RunTypes DEF FullDone, to
<1>8. ASSUME NEW p \in Paths, WalkFile(p) PROVE Types'
  <2> DEFINE new == [run.files EXCEPT ![p] = disk[p]]
  <2>1. new \in [Paths -> Nat]
    OBVIOUS
  <2>2. run' = [run EXCEPT !.files = new, !.work = @ \ {p}] /\ run.pc = "walk"
    BY <1>8 DEF WalkFile
  <2> HIDE DEF new
  <2>3. run' \in RunType /\ run'.pc = "walk"
    BY <2>1, <2>2
  <2> QED
    BY <1>8, <2>3, RunTypes DEF WalkFile
<1>9. ASSUME NEW p \in Paths, VanishedFile(p) PROVE Types'
  BY <1>9, IdleRunType DEF VanishedFile, abort, endRun, source, SeenInOrder, idleRun
<1>10. ASSUME NEW p \in Paths, BuildAsset(p) PROVE Types'
  <2> DEFINE v == IF canReuseAsset(p) THEN assets[p] ELSE disk[p]
  <2> DEFINE new == [run.scanned EXCEPT ![p] = v]
  <2>1. new \in [Paths -> Nat]
    OBVIOUS
  <2>2. run' = [run EXCEPT !.scanned = new, !.work = @ \ {p}] /\ run.pc = "buildAssets"
    BY <1>10 DEF BuildAsset
  <2> HIDE DEF new
  <2>3. run' \in RunType /\ run'.pc = "buildAssets"
    BY <2>1, <2>2
  <2> QED
    BY <1>10, <2>3, RunTypes DEF BuildAsset
<1>11. ASSUME NEW p \in Paths, SyncScannedAsset(p) PROVE Types'
  <2>1. <<p, run.scanned[p]>> \in Paths \X Nat
    OBVIOUS
  <2>2. run' = [run EXCEPT !.pc = "store", !.cur = <<p, run.scanned[p]>>, !.work = @ \ {p}]
    BY <1>11 DEF SyncScannedAsset
  <2>3. run' \in RunType /\ run'.pc = "store" /\ CurType'
    BY <2>1, <2>2
  <2>4. variants' \in [Sidecars -> VariantType]
    BY <1>11 DEF SyncScannedAsset
  <2> QED
    BY <1>11, <2>3, <2>4, RunTypes DEF SyncScannedAsset
<1>12. ASSUME NEW p \in Paths, ReconcileRemovedAsset(p) PROVE Types'
  BY <1>12, RunTypes DEF ReconcileRemovedAsset
<1>13. ASSUME NEW s \in Sidecars, BuildSidecar(s) PROVE Types'
  <2> DEFINE new == [run.sidecars EXCEPT ![s] = scannedSidecar(s)]
  <2>1. new \in [Sidecars -> VariantType]
    OBVIOUS
  <2>2. run' = [run EXCEPT !.sidecars = new, !.work = @ \ {s}] /\ run.pc = "buildSidecars"
    BY <1>13 DEF BuildSidecar
  <2> HIDE DEF new
  <2>3. run' \in RunType /\ run'.pc = "buildSidecars"
    BY <2>1, <2>2
  <2> QED
    BY <1>13, <2>3, RunTypes DEF BuildSidecar
<1>14. ASSUME NEW s \in Sidecars, UpsertScannedSidecar(s) PROVE Types'
  <2>1. run' \in RunType /\ run'.pc = "sidecarUpserts"
    BY <1>14 DEF UpsertScannedSidecar
  <2>2. variants' \in [Sidecars -> VariantType]
    BY <1>14 DEF UpsertScannedSidecar
  <2> QED
    BY <1>14, <2>1, <2>2, RunTypes DEF UpsertScannedSidecar
<1>15. ASSUME NEW s \in Sidecars, DeleteStaleSidecar(s) PROVE Types'
  BY <1>15, RunTypes DEF DeleteStaleSidecar
<1> QED
  BY <1>1, <1>2, <1>3, <1>4, <1>5, <1>6, <1>7, <1>8, <1>9, <1>10, <1>11, <1>12, <1>13, <1>14, <1>15
     DEF SyncFull

(***************************************************************************)
(* TypesStep: every step keeps the types.                                  *)
(***************************************************************************)
LEMMA TypesStep == Types /\ [Next]_vars => Types'
<1> SUFFICES ASSUME Types, [Next]_vars PROVE Types'
  OBVIOUS
<1>1. CASE UNCHANGED vars
  BY <1>1 DEF vars, source, watch, cat, Types, SeenInOrder, CurType
<1> QED
  BY <1>1, TypesOutside, TypesIncremental, TypesFull DEF Next, RunSteps
-----------------------------------------------------------------------------
(* VariantsMatchAssets *)

(***************************************************************************)
(* MatchingInit: the scan that begins gives every variant its owner's      *)
(* version.                                                                *)
(***************************************************************************)
LEMMA MatchingInit == Init => Matching
<1> SUFFICES ASSUME Init PROVE Matching
  OBVIOUS
<1>1. run.pc = "idle"
  BY DEF Init, idleRun
<1>2. VariantsMatchAssets
  <2> SUFFICES ASSUME NEW s \in Sidecars, variants[s] # NoVariant
               PROVE  assets[Owner[s]] # 0 /\ variants[s].source = assets[Owner[s]]
    BY DEF VariantsMatchAssets
  <2>1. assets[Owner[s]] = IF isSidecar(disk, Owner[s]) THEN 0 ELSE disk[Owner[s]]
    <3>1. assets = [p \in Paths |-> IF isSidecar(disk, p) THEN 0 ELSE disk[p]]
      BY ScanFacts DEF Init
    <3> QED
      BY <3>1, OwnerFacts
  <2>2. variants[s] = IF isSidecar(disk, s) /\ disk[s] \notin BadVersions
                        THEN [etag |-> disk[s], source |-> disk[Owner[s]]] ELSE NoVariant
    <3>1. variants = [t \in Sidecars |->
                       IF isSidecar(disk, t) /\ disk[t] \notin BadVersions
                         THEN [etag |-> disk[t], source |-> disk[Owner[t]]] ELSE NoVariant]
      BY ScanFacts DEF Init
    <3> QED
      BY <3>1
  <2> QED
    BY <2>1, <2>2, OwnerFacts DEF isSidecar
<1> QED
  BY <1>1, <1>2 DEF Matching, IncrementalMatches, ScanMatches, ReconcileMatches, Reconciling

(***************************************************************************)
(* MatchingKept: what touches neither run nor catalog breaks no match.     *)
(***************************************************************************)
LEMMA MatchingKept ==
    ASSUME Matching, UNCHANGED <<run, cat>>
    PROVE  Matching'
BY DEF cat, Matching, VariantsMatchAssets, IncrementalMatches, ScanMatches, ReconcileMatches,
   noVariantsOf

(***************************************************************************)
(* NewRun: the three forms a run begins or ends with.                      *)
(***************************************************************************)
NewRun ==
    {idleRun, [idleRun EXCEPT !.pc = "build"],
     [idleRun EXCEPT !.pc = "walk", !.full = TRUE, !.work = Paths]}

(***************************************************************************)
(* NewRunFacts: it has scanned nothing yet.                                *)
(***************************************************************************)
LEMMA NewRunFacts ==
    ASSUME NEW r \in NewRun
    PROVE  /\ r.pc \in {"idle", "build", "walk"} /\ r.full = (r.pc = "walk")
           /\ r.pc = "walk" => r.work = Paths
           /\ r.scanned = nothing /\ r.sidecars = [s \in Sidecars |-> NoVariant]
<1>1. /\ idleRun.pc = "idle" /\ idleRun.full = FALSE
      /\ idleRun.scanned = nothing /\ idleRun.sidecars = [s \in Sidecars |-> NoVariant]
  BY DEF idleRun
<1>2. CASE r = idleRun
  BY <1>1, <1>2
<1>3. CASE r = [idleRun EXCEPT !.pc = "build"]
  BY <1>1, <1>3, IdleRunType DEF RunType
<1>4. CASE r = [idleRun EXCEPT !.pc = "walk", !.full = TRUE, !.work = Paths]
  BY <1>1, <1>4, IdleRunType DEF RunType
<1> QED
  BY <1>2, <1>3, <1>4 DEF NewRun

(***************************************************************************)
(* MatchingNewRun: a run that begins or ends breaks no match.              *)
(***************************************************************************)
LEMMA MatchingNewRun ==
    ASSUME Matching, UNCHANGED cat, run' \in NewRun
    PROVE  Matching'
<1> QED
  BY NewRunFacts DEF cat, Matching, VariantsMatchAssets, IncrementalMatches, ScanMatches, ReconcileMatches,
     Reconciling, nothing

(***************************************************************************)
(* MatchingOutside: what happens outside the loops of a run.               *)
(***************************************************************************)
LEMMA MatchingOutside ==
    ASSUME Matching,
           \/ EditFiles \/ WatchEvent \/ RecordPending \/ FlushPending
           \/ StartIncremental \/ StartScheduled \/ Publish \/ ReadError
    PROVE  Matching'
<1>1. CASE EditFiles \/ WatchEvent \/ RecordPending \/ FlushPending
  BY <1>1, MatchingKept DEF EditFiles, WriteFile, RemoveFile, RenameFile, Edit, WatchEvent, RecordPending,
     FlushPending
<1>2. CASE StartIncremental \/ StartScheduled \/ Publish \/ ReadError
  BY <1>2, MatchingNewRun DEF NewRun, StartIncremental, StartScheduled, beginWalk, Publish, ReadError, abort, endRun
<1> QED
  BY <1>1, <1>2

(***************************************************************************)
(* WithoutFacts: to drop the variants of an asset breaks no match.         *)
(***************************************************************************)
LEMMA WithoutFacts ==
    ASSUME NEW a, variants' = withoutVariantsOf(a)
    PROVE  /\ noVariantsOf(a)'
           /\ \A s \in Sidecars : Owner[s] # a => variants'[s] = variants[s]
BY DEF withoutVariantsOf, noVariantsOf

(***************************************************************************)
(* MatchingIncremental: a step of an incremental run keeps Matching.       *)
(***************************************************************************)
LEMMA MatchingIncremental ==
    ASSUME Types, Matching, SyncIncrementally
    PROVE  Matching'
<1> USE DEF Types, RunType, Points, CurType, quietly, recording, catalogKept, cat, Matching
<1>1. CASE RecordWrite \/ RecordDelete
  <2>1. run'.pc = "build" /\ UNCHANGED cat
    <3>1. PICK r \in {recordAssetWrite(change.path), recordAssetDelete(change.path)} :
            run' = [r EXCEPT !.work = @ \cup {seen + 1}]
      BY <1>1 DEF RecordWrite, RecordDelete
    <3>2. r.pc = "build"
      BY <1>1, <3>1 DEF recordAssetWrite, recordAssetDelete, RecordWrite, RecordDelete, building
    <3> QED
      BY <1>1, <3>1, <3>2 DEF RecordWrite, RecordDelete
  <2> QED
    BY <2>1 DEF VariantsMatchAssets, IncrementalMatches, ScanMatches, ReconcileMatches, Reconciling
<1>2. CASE FallBackToFull
  BY <1>2, MatchingNewRun DEF NewRun, FallBackToFull, beginWalk
<1>3. CASE NormalizeTargets \/ SidecarsRebuilt \/ IncrementalDone
  <2>1. run'.pc \in {"apply", "publish"} /\ UNCHANGED cat
    <3>1. CASE NormalizeTargets
      <4>1. normalizeIncrementalTargets(run) \in RunType
        BY DEF normalizeIncrementalTargets
      <4> QED
        BY <3>1, <4>1 DEF NormalizeTargets
    <3>2. CASE SidecarsRebuilt
      BY <3>2 DEF SidecarsRebuilt
    <3>3. CASE IncrementalDone
      BY <3>3 DEF IncrementalDone, to
    <3> QED
      BY <1>3, <3>1, <3>2, <3>3
  <2> QED
    BY <2>1 DEF VariantsMatchAssets, IncrementalMatches, ScanMatches, ReconcileMatches, Reconciling
<1>4. CASE UpsertChangedAsset
  <2>1. /\ run'.pc = "sidecars" /\ run'.cur = run.cur
        /\ run'.work = {s \in Sidecars : Owner[s] = run.cur[1]}
    BY <1>4 DEF UpsertChangedAsset
  <2>2. run.cur \in Assets \X Nat /\ run.cur[1] \in Paths /\ run.cur[2] # 0 /\ noVariantsOf(run.cur[1])
    BY <1>4, OwnerFacts DEF UpsertChangedAsset, IncrementalMatches
  <2>3. UNCHANGED variants /\ assets' = [assets EXCEPT ![run.cur[1]] = run.cur[2]]
    BY <1>4 DEF UpsertChangedAsset
  <2>4. VariantsMatchAssets'
    BY <2>2, <2>3, OwnerFacts DEF VariantsMatchAssets, noVariantsOf
  <2>5. IncrementalMatches'
    BY <2>1, <2>2, <2>3 DEF IncrementalMatches
  <2> QED
    BY <2>1, <2>4, <2>5 DEF ScanMatches, ReconcileMatches, Reconciling
<1>5. ASSUME NEW a \in Assets, ProcessDeletedAsset(a) PROVE Matching'
  <2>1. run'.pc = "apply"
    BY <1>5 DEF ProcessDeletedAsset
  <2>2. VariantsMatchAssets'
    BY <1>5, WithoutFacts, OwnerFacts DEF ProcessDeletedAsset, VariantsMatchAssets, noVariantsOf
  <2> QED
    BY <2>1, <2>2 DEF IncrementalMatches, ScanMatches, ReconcileMatches, Reconciling
<1>6. ASSUME NEW a \in Assets, VanishedAsset(a) PROVE Matching'
  BY <1>6, MatchingNewRun DEF NewRun, VanishedAsset, abort, endRun
<1>7. ASSUME NEW a \in Assets, ProcessChangedAsset(a) PROVE Matching'
  <2>1. CASE assets[a] = disk[a]
    <3>1. run'.pc = "apply" /\ UNCHANGED cat
      BY <1>7, <2>1 DEF ProcessChangedAsset
    <3> QED
      BY <3>1 DEF VariantsMatchAssets, IncrementalMatches, ScanMatches, ReconcileMatches, Reconciling
  <2>2. CASE assets[a] # disk[a]
    <3>1. run' = [run EXCEPT !.pc = "upsert", !.cur = <<a, disk[a]>>, !.changed = @ \ {a}]
      BY <1>7, <2>2 DEF ProcessChangedAsset
    <3>2. run'.pc = "upsert" /\ run'.cur = <<a, disk[a]>> /\ <<a, disk[a]>> \in Assets \X Nat /\ disk[a] # 0
      BY <1>7, <3>1, OwnerFacts DEF ProcessChangedAsset
    <3>3. UNCHANGED assets /\ variants' = withoutVariantsOf(a)
      BY <1>7, <2>2 DEF ProcessChangedAsset
    <3>4. VariantsMatchAssets'
      BY <3>3, WithoutFacts DEF VariantsMatchAssets, noVariantsOf
    <3>5. IncrementalMatches'
      BY <3>2, <3>3, WithoutFacts DEF IncrementalMatches, noVariantsOf
    <3> QED
      BY <3>2, <3>4, <3>5 DEF ScanMatches, ReconcileMatches, Reconciling
  <2> QED
    BY <2>1, <2>2
<1>8. ASSUME NEW s \in Sidecars, ProcessDeletedSidecar(s) \/ ProcessChangedSidecar(s) PROVE Matching'
  <2>1. run'.pc = "apply" /\ UNCHANGED assets
    BY <1>8 DEF ProcessDeletedSidecar, ProcessChangedSidecar
  <2>2. \A t \in Sidecars : t # s => variants'[t] = variants[t]
    BY <1>8 DEF ProcessDeletedSidecar, ProcessChangedSidecar
  <2>3. \/ variants'[s] \in {variants[s], NoVariant}
        \/ assets[Owner[s]] # 0 /\ variants'[s].source = assets[Owner[s]]
    BY <1>8 DEF ProcessDeletedSidecar, ProcessChangedSidecar, BuildSourceSidecarVariant
  <2>4. VariantsMatchAssets'
    BY <2>1, <2>2, <2>3 DEF VariantsMatchAssets
  <2> QED
    BY <2>1, <2>4 DEF IncrementalMatches, ScanMatches, ReconcileMatches, Reconciling
<1>9. ASSUME NEW s \in Sidecars, RebuildSidecar(s) PROVE Matching'
  <2>1. run'.pc = "sidecars" /\ run'.cur = run.cur /\ run'.work = run.work \ {s} /\ UNCHANGED assets
    BY <1>9 DEF RebuildSidecar
  <2>2. /\ run.cur \in Assets \X Nat /\ run.cur[2] # 0 /\ assets[run.cur[1]] = run.cur[2]
        /\ run.work \subseteq {t \in Sidecars : Owner[t] = run.cur[1]} /\ Owner[s] = run.cur[1]
    BY <1>9 DEF RebuildSidecar, IncrementalMatches
  <2>3. \A t \in Sidecars : t # s => variants'[t] = variants[t]
    BY <1>9 DEF RebuildSidecar
  <2>4. variants'[s] = variants[s] \/ variants'[s].source = run.cur[2]
    BY <1>9 DEF RebuildSidecar, BuildSourceSidecarVariant
  <2>5. VariantsMatchAssets'
    BY <2>1, <2>2, <2>3, <2>4 DEF VariantsMatchAssets
  <2>6. IncrementalMatches'
    BY <2>1, <2>2 DEF IncrementalMatches
  <2> QED
    BY <2>1, <2>5, <2>6 DEF ScanMatches, ReconcileMatches, Reconciling
<1> QED
  BY <1>1, <1>2, <1>3, <1>4, <1>5, <1>6, <1>7, <1>8, <1>9 DEF SyncIncrementally

(***************************************************************************)
(* MatchingFull: a step of a full run keeps Matching.                      *)
(***************************************************************************)
LEMMA MatchingFull ==
    ASSUME Types, Matching, SyncFull
    PROVE  Matching'
<1> USE DEF Types, RunType, Points, CurType, quietly, recording, catalogKept, cat, Matching
<1>1. ASSUME NEW p \in Paths, WalkFile(p) PROVE Matching'
  <2> DEFINE new == [run.files EXCEPT ![p] = disk[p]]
  <2>1. run' = [run EXCEPT !.files = new, !.work = @ \ {p}] /\ run.pc = "walk" /\ UNCHANGED cat
    BY <1>1 DEF WalkFile
  <2> HIDE DEF new
  <2>2. run'.pc = "walk" /\ run'.scanned = run.scanned /\ run'.sidecars = run.sidecars
    BY <2>1
  <2> QED
    BY <2>1, <2>2 DEF VariantsMatchAssets, IncrementalMatches, ScanMatches, ReconcileMatches, Reconciling
<1>2. CASE WalkDone
  <2>1. /\ run'.pc = "buildAssets" /\ run'.scanned = run.scanned /\ run'.sidecars = run.sidecars
        /\ run'.files = run.files /\ run'.work = assetFiles(run.files) /\ run.pc = "walk" /\ UNCHANGED cat
    BY <1>2 DEF WalkDone
  <2> QED
    BY <2>1 DEF VariantsMatchAssets, IncrementalMatches, ScanMatches, ReconcileMatches, Reconciling
<1>3. ASSUME NEW p \in Paths, VanishedFile(p) PROVE Matching'
  BY <1>3, MatchingNewRun DEF NewRun, VanishedFile, abort, endRun
<1>4. ASSUME NEW p \in Paths, BuildAsset(p) PROVE Matching'
  <2> DEFINE v == IF canReuseAsset(p) THEN assets[p] ELSE disk[p]
  <2> DEFINE new == [run.scanned EXCEPT ![p] = v]
  <2>1. /\ run' = [run EXCEPT !.scanned = new, !.work = @ \ {p}] /\ run.pc = "buildAssets" /\ p \in run.work
        /\ UNCHANGED cat
    BY <1>4 DEF BuildAsset
  <2>2. \A q \in Paths : new[q] = IF q = p THEN v ELSE run.scanned[q]
    OBVIOUS
  <2>3. p \in assetFiles(run.files) => v # 0
    BY <1>4 DEF BuildAsset, canReuseAsset, assetFiles
  <2> HIDE DEF new, v
  <2>4. /\ run'.pc = "buildAssets" /\ run'.scanned = new /\ run'.sidecars = run.sidecars
        /\ run'.files = run.files /\ run'.work = run.work \ {p}
    BY <2>1
  <2>5. \A q \in assetFiles(run.files) \ (run.work \ {p}) : new[q] # 0
    BY <2>1, <2>2, <2>3 DEF ScanMatches, assetFiles
  <2>6. assetFiles(run.files)' = assetFiles(run.files)
    BY <2>4 DEF assetFiles, isSidecar
  <2>7. ScanMatches'
    BY <2>1, <2>4, <2>5, <2>6 DEF ScanMatches, Reconciling
  <2> QED
    BY <2>1, <2>4, <2>7 DEF VariantsMatchAssets, IncrementalMatches, ReconcileMatches
<1>5. CASE AssetsBuilt
  <2>1. /\ run'.pc = "buildSidecars" /\ run'.scanned = run.scanned /\ run'.sidecars = run.sidecars
        /\ run'.files = run.files /\ run'.work = {s \in Sidecars : isSidecar(run.files, s)}
        /\ run.pc = "buildAssets" /\ run.work = {} /\ UNCHANGED cat
    BY <1>5 DEF AssetsBuilt
  <2>2. \A p \in assetFiles(run.files) : run.scanned[p] # 0
    BY <2>1 DEF ScanMatches, assetFiles
  <2> QED
    BY <2>1, <2>2 DEF VariantsMatchAssets, IncrementalMatches, ScanMatches, ReconcileMatches, Reconciling
<1>6. ASSUME NEW s \in Sidecars, BuildSidecar(s) PROVE Matching'
  <2> DEFINE new == [run.sidecars EXCEPT ![s] = scannedSidecar(s)]
  <2>1. /\ run' = [run EXCEPT !.sidecars = new, !.work = @ \ {s}] /\ run.pc = "buildSidecars" /\ s \in run.work
        /\ UNCHANGED cat
    BY <1>6 DEF BuildSidecar
  <2>2. \A t \in Sidecars : new[t] = IF t = s THEN scannedSidecar(s) ELSE run.sidecars[t]
    OBVIOUS
  <2>3. run.scanned[Owner[s]] # 0
    BY <2>1, OwnerFacts DEF ScanMatches, assetFiles, isSidecar
  <2>4. scannedSidecar(s) = NoVariant \/ scannedSidecar(s).source = run.scanned[Owner[s]]
    BY DEF scannedSidecar, BuildSourceSidecarVariant
  <2> HIDE DEF new
  <2>5. /\ run'.pc = "buildSidecars" /\ run'.scanned = run.scanned /\ run'.sidecars = new
        /\ run'.files = run.files /\ run'.work = run.work \ {s}
    BY <2>1
  <2>6. ScanMatches'
    BY <2>1, <2>2, <2>3, <2>4, <2>5 DEF ScanMatches, Reconciling
  <2> QED
    BY <2>1, <2>5, <2>6 DEF VariantsMatchAssets, IncrementalMatches, ReconcileMatches
<1>7. CASE SidecarsBuilt
  <2>1. /\ run'.pc = "reconcile" /\ run'.scanned = run.scanned /\ run'.sidecars = run.sidecars
        /\ run'.work = {p \in Paths : run.scanned[p] # 0}
        /\ run'.deleted = {p \in Paths : assets[p] # 0 /\ run.scanned[p] = 0}
        /\ run.pc = "buildSidecars" /\ UNCHANGED cat
    BY <1>7 DEF SidecarsBuilt
  <2> QED
    BY <2>1 DEF VariantsMatchAssets, IncrementalMatches, ScanMatches, ReconcileMatches, Reconciling
<1>8. ASSUME NEW p \in Paths, SyncScannedAsset(p) PROVE Matching'
  <2>1. /\ run' = [run EXCEPT !.pc = "store", !.cur = <<p, run.scanned[p]>>, !.work = @ \ {p}]
        /\ run.pc = "reconcile" /\ p \in run.work /\ UNCHANGED assets
    BY <1>8 DEF SyncScannedAsset
  <2>2. /\ run'.pc = "store" /\ run'.cur = <<p, run.scanned[p]>> /\ run'.work = run.work \ {p}
        /\ run'.scanned = run.scanned /\ run'.sidecars = run.sidecars /\ run'.deleted = run.deleted
    BY <2>1
  <2>3. VariantsMatchAssets'
    BY <1>8, <2>1, WithoutFacts DEF SyncScannedAsset, VariantsMatchAssets, noVariantsOf
  <2>4. run.scanned[p] # 0 /\ <<p, run.scanned[p]>> \in Paths \X Nat
    BY <2>1 DEF ReconcileMatches
  <2>5. assets[p] = run.scanned[p] \/ noVariantsOf(p)'
    BY <1>8, <2>1, WithoutFacts DEF SyncScannedAsset, VariantsMatchAssets, noVariantsOf
  <2>6. ReconcileMatches'
    BY <2>1, <2>2, <2>4, <2>5 DEF ReconcileMatches, noVariantsOf
  <2>7. ScanMatches'
    BY <2>1, <2>2 DEF ScanMatches, Reconciling
  <2> QED
    BY <2>2, <2>3, <2>6, <2>7 DEF IncrementalMatches
<1>9. CASE StoreScannedAsset
  <2>1. /\ run'.pc = "reconcile" /\ run'.work = run.work /\ run.pc = "store"
        /\ run'.scanned = run.scanned /\ run'.sidecars = run.sidecars /\ run'.deleted = run.deleted
    BY <1>9 DEF StoreScannedAsset
  <2>2. UNCHANGED variants /\ assets' = [assets EXCEPT ![run.cur[1]] = run.cur[2]]
    BY <1>9 DEF StoreScannedAsset
  <2>3. /\ run.cur \in Paths \X Nat /\ run.cur[2] = run.scanned[run.cur[1]] /\ run.cur[2] # 0
        /\ assets[run.cur[1]] = run.cur[2] \/ noVariantsOf(run.cur[1])
    BY <2>1 DEF ReconcileMatches
  <2>4. \A q \in Paths : assets'[q] = IF q = run.cur[1] THEN run.cur[2] ELSE assets[q]
    BY <2>2
  <2>5. VariantsMatchAssets'
    BY <2>2, <2>3, <2>4, OwnerFacts DEF VariantsMatchAssets, noVariantsOf
  <2>6. ReconcileMatches'
    BY <2>1, <2>3, <2>4 DEF ReconcileMatches
  <2>7. ScanMatches'
    BY <2>1 DEF ScanMatches, Reconciling
  <2> QED
    BY <2>1, <2>5, <2>6, <2>7 DEF IncrementalMatches
<1>10. CASE AssetsReconciled
  <2>1. /\ run'.pc = "removed" /\ run.pc = "reconcile" /\ run.work = {} /\ UNCHANGED cat
        /\ run'.scanned = run.scanned /\ run'.sidecars = run.sidecars /\ run'.deleted = run.deleted
    BY <1>10 DEF AssetsReconciled, to
  <2> QED
    BY <2>1 DEF VariantsMatchAssets, IncrementalMatches, ScanMatches, ReconcileMatches, Reconciling
<1>11. ASSUME NEW p \in Paths, ReconcileRemovedAsset(p) PROVE Matching'
  <2>1. /\ run'.pc = "removed" /\ run.pc = "removed" /\ p \in run.deleted
        /\ run'.scanned = run.scanned /\ run'.sidecars = run.sidecars /\ run'.deleted = run.deleted \ {p}
    BY <1>11 DEF ReconcileRemovedAsset
  <2>2. \A q \in Paths : assets'[q] = IF q = p THEN 0 ELSE assets[q]
    BY <1>11 DEF ReconcileRemovedAsset
  <2>6. /\ \A s \in Sidecars : Owner[s] = p => variants'[s] = NoVariant
        /\ \A s \in Sidecars : Owner[s] # p => variants'[s] = variants[s]
    BY <1>11, WithoutFacts DEF ReconcileRemovedAsset, noVariantsOf
  <2>3. VariantsMatchAssets'
    BY <2>2, <2>6, OwnerFacts DEF VariantsMatchAssets
  <2>4. ReconcileMatches'
    BY <2>1, <2>2 DEF ReconcileMatches
  <2>5. ScanMatches'
    BY <2>1 DEF ScanMatches, Reconciling
  <2> QED
    BY <2>1, <2>3, <2>4, <2>5 DEF IncrementalMatches
<1>12. CASE RemovedReconciled
  <2>1. /\ run'.pc = "sidecarUpserts" /\ run.pc = "removed" /\ UNCHANGED cat
        /\ run'.scanned = run.scanned /\ run'.sidecars = run.sidecars
    BY <1>12 DEF RemovedReconciled
  <2> QED
    BY <2>1 DEF VariantsMatchAssets, IncrementalMatches, ScanMatches, ReconcileMatches, Reconciling
<1>13. ASSUME NEW s \in Sidecars, UpsertScannedSidecar(s) \/ DeleteStaleSidecar(s) PROVE Matching'
  <2>1. /\ run'.pc = "sidecarUpserts" /\ run.pc = "sidecarUpserts" /\ UNCHANGED assets
        /\ run'.scanned = run.scanned /\ run'.sidecars = run.sidecars
    BY <1>13 DEF UpsertScannedSidecar, DeleteStaleSidecar
  <2>2. /\ \A t \in Sidecars : t # s => variants'[t] = variants[t]
        /\ variants'[s] \in {run.sidecars[s], NoVariant}
    BY <1>13 DEF UpsertScannedSidecar, DeleteStaleSidecar
  <2>3. run.sidecars[s] # NoVariant =>
          assets[Owner[s]] # 0 /\ run.sidecars[s].source = assets[Owner[s]]
    BY <2>1, OwnerFacts DEF ScanMatches, ReconcileMatches, Reconciling
  <2>4. VariantsMatchAssets'
    BY <2>1, <2>2, <2>3 DEF VariantsMatchAssets
  <2> QED
    BY <2>1, <2>4 DEF IncrementalMatches, ScanMatches, ReconcileMatches, Reconciling
<1>14. CASE FullDone
  <2>1. run'.pc = "publish" /\ UNCHANGED cat
    BY <1>14 DEF FullDone, to
  <2> QED
    BY <2>1 DEF VariantsMatchAssets, IncrementalMatches, ScanMatches, ReconcileMatches, Reconciling
<1> QED
  BY <1>1, <1>2, <1>3, <1>4, <1>5, <1>6, <1>7, <1>8, <1>9, <1>10, <1>11, <1>12, <1>13, <1>14 DEF SyncFull

(***************************************************************************)
(* MatchingStep: every step keeps Matching.                                *)
(***************************************************************************)
LEMMA MatchingStep == Types /\ Matching /\ [Next]_vars => Matching'
<1> SUFFICES ASSUME Types, Matching, [Next]_vars PROVE Matching'
  OBVIOUS
<1>1. CASE UNCHANGED vars
  BY <1>1, MatchingKept DEF vars
<1> QED
  BY <1>1, MatchingOutside, MatchingIncremental, MatchingFull DEF Next, RunSteps

(***************************************************************************)
(* VariantsStayMatched: in every state of every behaviour a sidecar        *)
(* variant belongs to the version of its asset that the catalog shows,     *)
(* however incremental runs, full runs, their failures and edits of the    *)
(* files interleave.                                                       *)
(***************************************************************************)
THEOREM VariantsStayMatched == Spec => []VariantsMatchAssets
<1>1. Init => Types /\ Matching
  BY TypesInit, MatchingInit
<1>2. Types /\ Matching /\ [Next]_vars => (Types /\ Matching)'
  BY TypesStep, MatchingStep
<1>3. Types /\ Matching => VariantsMatchAssets
  BY DEF Matching
<1> QED
  BY <1>1, <1>2, <1>3, PTL DEF Spec
-----------------------------------------------------------------------------
(* FullRescanIsExact *)

(***************************************************************************)
(* IncrementalIsNotFull: a run that looks at single changes is not a full  *)
(* one and does not become one, unless it starts again.                    *)
(***************************************************************************)
LEMMA IncrementalIsNotFull ==
    ASSUME Types, OnlyScansAreFull, SyncIncrementally
    PROVE  run' \in NewRun \/ run'.full = FALSE
<1> USE DEF Types, RunType, Points, OnlyScansAreFull
<1>1. CASE RecordWrite \/ RecordDelete
  <2>1. PICK r \in {recordAssetWrite(change.path), recordAssetDelete(change.path)} :
          run' = [r EXCEPT !.work = @ \cup {seen + 1}]
    BY <1>1 DEF RecordWrite, RecordDelete
  <2>2. r.full = FALSE
    BY <1>1, <2>1 DEF recordAssetWrite, recordAssetDelete, RecordWrite, RecordDelete, building
  <2> QED
    BY <2>1, <2>2
<1>2. CASE NormalizeTargets
  <2>1. normalizeIncrementalTargets(run) \in RunType /\ normalizeIncrementalTargets(run).full = run.full
    BY DEF normalizeIncrementalTargets
  <2> QED
    BY <1>2, <2>1 DEF NormalizeTargets
<1>3. CASE UpsertChangedAsset \/ SidecarsRebuilt \/ IncrementalDone
  <2>1. run.pc \in {"apply", "upsert", "sidecars"} /\ run'.full = run.full
    <3>1. CASE UpsertChangedAsset
      BY <3>1 DEF UpsertChangedAsset
    <3>2. CASE SidecarsRebuilt
      BY <3>2 DEF SidecarsRebuilt
    <3>3. CASE IncrementalDone
      BY <3>3 DEF IncrementalDone, to
    <3> QED
      BY <1>3, <3>1, <3>2, <3>3
  <2> QED
    BY <2>1
<1>4. ASSUME NEW a \in Assets, ProcessDeletedAsset(a) \/ VanishedAsset(a) \/ ProcessChangedAsset(a)
      PROVE  run' \in NewRun \/ run'.full = FALSE
  <2>1. CASE ProcessDeletedAsset(a)
    BY <2>1 DEF ProcessDeletedAsset
  <2>2. CASE VanishedAsset(a)
    BY <2>2 DEF NewRun, VanishedAsset, abort, endRun
  <2>3. CASE ProcessChangedAsset(a)
    <3>1. \/ run' = [run EXCEPT !.changed = @ \ {a}]
          \/ run' = [run EXCEPT !.pc = "upsert", !.cur = <<a, disk[a]>>, !.changed = @ \ {a}]
      BY <2>3 DEF ProcessChangedAsset
    <3>2. run'.full = run.full
      BY <3>1
    <3> QED
      BY <2>3, <3>2 DEF ProcessChangedAsset
  <2> QED
    BY <1>4, <2>1, <2>2, <2>3
<1>5. ASSUME NEW s \in Sidecars, ProcessDeletedSidecar(s) \/ RebuildSidecar(s) \/ ProcessChangedSidecar(s)
      PROVE  run' \in NewRun \/ run'.full = FALSE
  <2>1. run.pc \in {"apply", "sidecars"} /\ run'.full = run.full
    BY <1>5 DEF ProcessDeletedSidecar, RebuildSidecar, ProcessChangedSidecar
  <2> QED
    BY <2>1
<1>6. CASE FallBackToFull
  BY <1>6 DEF NewRun, FallBackToFull, beginWalk
<1> QED
  BY <1>1, <1>2, <1>3, <1>4, <1>5, <1>6 DEF SyncIncrementally

(***************************************************************************)
(* FullOnlyStep: every step keeps OnlyScansAreFull.                        *)
(***************************************************************************)
LEMMA FullOnlyStep == Types /\ OnlyScansAreFull /\ [Next]_vars => OnlyScansAreFull'
<1> SUFFICES ASSUME Types, OnlyScansAreFull, [Next]_vars PROVE OnlyScansAreFull'
  OBVIOUS
<1> USE DEF Types, RunType, Points, OnlyScansAreFull
<1>1. CASE UNCHANGED run
  BY <1>1
<1>2. CASE run' \in NewRun
  BY <1>2, NewRunFacts
<1>3. CASE EditFiles \/ WatchEvent \/ RecordPending \/ FlushPending
  BY <1>1, <1>3 DEF EditFiles, WriteFile, RemoveFile, RenameFile, Edit, WatchEvent, RecordPending, FlushPending
<1>4. CASE StartIncremental \/ StartScheduled \/ Publish \/ ReadError
  BY <1>2, <1>4 DEF NewRun, StartIncremental, StartScheduled, beginWalk, Publish, ReadError, abort, endRun
<1>5. CASE SyncIncrementally
  BY <1>2, <1>5, IncrementalIsNotFull
<1>6. CASE WalkDone \/ AssetsBuilt \/ SidecarsBuilt \/ StoreScannedAsset \/ AssetsReconciled
            \/ RemovedReconciled \/ FullDone
  <2>1. run'.pc \in {"buildAssets", "buildSidecars", "reconcile", "removed", "sidecarUpserts", "publish"}
    <3>1. CASE WalkDone \/ AssetsBuilt \/ SidecarsBuilt
      BY <3>1 DEF WalkDone, AssetsBuilt, SidecarsBuilt
    <3>2. CASE StoreScannedAsset
      BY <3>2 DEF StoreScannedAsset
    <3>3. CASE AssetsReconciled \/ RemovedReconciled \/ FullDone
      BY <3>3 DEF AssetsReconciled, RemovedReconciled, FullDone, to
    <3> QED
      BY <1>6, <3>1, <3>2, <3>3
  <2> QED
    BY <2>1
<1>7. ASSUME NEW p \in Paths,
              \/ WalkFile(p) \/ VanishedFile(p) \/ BuildAsset(p)
              \/ SyncScannedAsset(p) \/ ReconcileRemovedAsset(p)
       PROVE  OnlyScansAreFull'
  <2>1. CASE VanishedFile(p)
    BY <1>2, <2>1 DEF NewRun, VanishedFile, abort, endRun
  <2>2. CASE WalkFile(p) \/ BuildAsset(p) \/ ReconcileRemovedAsset(p)
    <3>1. run.pc \in {"walk", "buildAssets", "removed"} /\ run'.pc = run.pc
      BY <2>2 DEF WalkFile, BuildAsset, ReconcileRemovedAsset
    <3> QED
      BY <3>1
  <2>3. CASE SyncScannedAsset(p)
    <3>1. run'.pc = "store"
      BY <2>3 DEF SyncScannedAsset
    <3> QED
      BY <3>1
  <2> QED
    BY <1>7, <2>1, <2>2, <2>3
<1>8. ASSUME NEW s \in Sidecars, BuildSidecar(s) \/ UpsertScannedSidecar(s) \/ DeleteStaleSidecar(s)
       PROVE  OnlyScansAreFull'
  <2>1. run.pc \in {"buildSidecars", "sidecarUpserts"} /\ run'.pc = run.pc
    BY <1>8 DEF BuildSidecar, UpsertScannedSidecar, DeleteStaleSidecar
  <2> QED
    BY <2>1
<1> QED
  BY <1>1, <1>3, <1>4, <1>5, <1>6, <1>7, <1>8 DEF vars, Next, RunSteps, SyncFull

(***************************************************************************)
(* ExactNewRun: a run that begins or ends has nothing to be exact about.   *)
(***************************************************************************)
LEMMA ExactNewRun ==
    ASSUME run' \in NewRun
    PROVE  Exact'
<1>1. run'.pc \in {"idle", "build", "walk"} /\ (run'.pc = "walk" => run'.work = Paths)
  BY NewRunFacts
<1> QED
  BY <1>1 DEF Exact, Reconciling

(***************************************************************************)
(* ExactKept: what touches neither the files, the run nor the catalog.     *)
(***************************************************************************)
LEMMA ExactKept ==
    ASSUME Exact, UNCHANGED <<run, clean, disk, assets, variants>>
    PROVE  Exact'
BY DEF Exact, InSync, cat

(***************************************************************************)
(* ExactOutside: what happens outside the loops of a full run.             *)
(***************************************************************************)
LEMMA ExactOutside ==
    ASSUME Types, OnlyScansAreFull, Exact,
           \/ EditFiles \/ WatchEvent \/ RecordPending \/ FlushPending
           \/ StartIncremental \/ StartScheduled \/ Publish \/ ReadError \/ SyncIncrementally
    PROVE  Exact'
<1>1. CASE EditFiles
  BY <1>1 DEF EditFiles, WriteFile, RemoveFile, RenameFile, Edit, Exact
<1>2. CASE WatchEvent \/ RecordPending \/ FlushPending
  BY <1>2, ExactKept DEF WatchEvent, RecordPending, FlushPending, source, cat
<1>3. CASE StartIncremental \/ StartScheduled \/ Publish \/ ReadError
  BY <1>3, ExactNewRun DEF NewRun, StartIncremental, StartScheduled, beginWalk, Publish, ReadError, abort, endRun
<1>4. CASE SyncIncrementally
  <2>1. CASE run'.full = FALSE
    BY <2>1 DEF Exact
  <2> QED
    BY <1>4, <2>1, ExactNewRun, IncrementalIsNotFull
<1> QED
  BY <1>1, <1>2, <1>3, <1>4

(***************************************************************************)
(* ExactFull: a step of a full run keeps Exact.                            *)
(***************************************************************************)
LEMMA ExactFull ==
    ASSUME Types, Matching, Exact, SyncFull
    PROVE  Exact'
<1> USE DEF Types, RunType, Points, quietly, recording, catalogKept, cat, source, Reconciling
<1>1. ASSUME NEW p \in Paths, WalkFile(p) PROVE Exact'
  <2> DEFINE new == [run.files EXCEPT ![p] = disk[p]]
  <2>1. /\ run' = [run EXCEPT !.files = new, !.work = @ \ {p}] /\ run.pc = "walk"
        /\ clean' = clean /\ disk' = disk
    BY <1>1 DEF WalkFile
  <2>2. \A q \in Paths : new[q] = IF q = p THEN disk[p] ELSE run.files[q]
    OBVIOUS
  <2> HIDE DEF new
  <2>3. run'.pc = "walk" /\ run'.files = new /\ run'.work = run.work \ {p} /\ run'.full = run.full
    BY <2>1
  <2> QED
    BY <2>1, <2>2, <2>3 DEF Exact
<1>2. CASE WalkDone
  <2>1. /\ run'.pc = "buildAssets" /\ run'.scanned = run.scanned /\ run'.files = run.files
        /\ run'.work = assetFiles(run.files) /\ run'.full = run.full
        /\ run.pc = "walk" /\ run.work = {} /\ clean' = clean /\ disk' = disk
    BY <1>2 DEF WalkDone
  <2>2. ASSUME clean, run.full PROVE run.files = disk
    BY <2>1, <2>2 DEF Exact
  <2>3. \A p \in Paths : run.scanned[p] = 0
    BY <2>1 DEF Matching, ScanMatches
  <2> QED
    BY <2>1, <2>2, <2>3 DEF Exact
<1>3. ASSUME NEW p \in Paths, VanishedFile(p) PROVE Exact'
  BY <1>3, ExactNewRun DEF NewRun, VanishedFile, abort, endRun
<1>4. ASSUME NEW p \in Paths, BuildAsset(p) PROVE Exact'
  <2> DEFINE v == IF canReuseAsset(p) THEN assets[p] ELSE disk[p]
  <2> DEFINE new == [run.scanned EXCEPT ![p] = v]
  <2>1. /\ run' = [run EXCEPT !.scanned = new, !.work = @ \ {p}] /\ run.pc = "buildAssets" /\ p \in run.work
        /\ clean' = clean /\ disk' = disk
    BY <1>4 DEF BuildAsset
  <2>2. \A q \in Paths : new[q] = IF q = p THEN v ELSE run.scanned[q]
    OBVIOUS
  <2>3. ASSUME run.files = disk PROVE v = disk[p]
    BY <2>3 DEF canReuseAsset
  <2> HIDE DEF new, v
  <2>4. /\ run'.pc = "buildAssets" /\ run'.scanned = new /\ run'.files = run.files
        /\ run'.work = run.work \ {p} /\ run'.full = run.full
    BY <2>1
  <2>5. SUFFICES ASSUME clean, run.full PROVE Exact'
    BY <2>1, <2>4 DEF Exact
  <2>6. /\ run.files = disk /\ run.work \subseteq assetFiles(disk)
        /\ \A q \in Paths : run.scanned[q] = IF q \in assetFiles(disk) \ run.work THEN disk[q] ELSE 0
    BY <2>1, <2>5 DEF Exact
  <2>7. \A q \in Paths : new[q] = IF q \in assetFiles(disk) \ (run.work \ {p}) THEN disk[q] ELSE 0
    BY <2>1, <2>2, <2>3, <2>6
  <2> QED
    BY <2>1, <2>4, <2>6, <2>7 DEF Exact
<1>5. CASE AssetsBuilt
  <2>1. /\ run'.pc = "buildSidecars" /\ run'.scanned = run.scanned /\ run'.sidecars = run.sidecars
        /\ run'.files = run.files /\ run'.work = {s \in Sidecars : isSidecar(run.files, s)}
        /\ run'.full = run.full
        /\ run.pc = "buildAssets" /\ run.work = {} /\ clean' = clean /\ disk' = disk
    BY <1>5 DEF AssetsBuilt
  <2>2. SUFFICES ASSUME clean, run.full PROVE Exact'
    BY <2>1 DEF Exact
  <2>3. /\ run.files = disk
        /\ \A q \in Paths : run.scanned[q] = IF q \in assetFiles(disk) THEN disk[q] ELSE 0
    BY <2>1, <2>2 DEF Exact
  <2>4. run.scanned = ScanOf(disk)[1]
    <3>1. ScanOf(disk)[1] = [p \in Paths |-> IF isSidecar(disk, p) THEN 0 ELSE disk[p]]
      BY ScanFacts
    <3>2. \A p \in Paths : run.scanned[p] = IF isSidecar(disk, p) THEN 0 ELSE disk[p]
      BY <2>3 DEF assetFiles
    <3> QED
      BY <3>1, <3>2
  <2>5. \A s \in Sidecars : run.sidecars[s] = NoVariant
    BY <2>1 DEF Matching, ScanMatches
  <2>6. \A s \in Sidecars : ~isSidecar(disk, s) => ScanOf(disk)[2][s] = NoVariant
    <3>1. ScanOf(disk)[2] = [s \in Sidecars |->
                IF isSidecar(disk, s) /\ disk[s] \notin BadVersions
                  THEN [etag |-> disk[s], source |-> disk[Owner[s]]] ELSE NoVariant]
      BY ScanFacts
    <3> QED
      BY <3>1
  <2> QED
    BY <2>1, <2>3, <2>4, <2>5, <2>6 DEF Exact
<1>6. ASSUME NEW s \in Sidecars, BuildSidecar(s) PROVE Exact'
  <2> DEFINE new == [run.sidecars EXCEPT ![s] = scannedSidecar(s)]
  <2>1. /\ run' = [run EXCEPT !.sidecars = new, !.work = @ \ {s}]
        /\ run.pc = "buildSidecars" /\ s \in run.work /\ clean' = clean /\ disk' = disk
    BY <1>6 DEF BuildSidecar
  <2>2. \A t \in Sidecars : new[t] = IF t = s THEN scannedSidecar(s) ELSE run.sidecars[t]
    OBVIOUS
  <2> HIDE DEF new
  <2>3. /\ run'.pc = "buildSidecars" /\ run'.scanned = run.scanned /\ run'.sidecars = new
        /\ run'.files = run.files /\ run'.work = run.work \ {s} /\ run'.full = run.full
    BY <2>1
  <2>4. SUFFICES ASSUME clean, run.full PROVE Exact'
    BY <2>1, <2>3 DEF Exact
  <2>5. /\ run.files = disk /\ run.scanned = ScanOf(disk)[1]
        /\ \A t \in Sidecars : run.sidecars[t] = IF t \in run.work THEN NoVariant ELSE ScanOf(disk)[2][t]
    BY <2>1, <2>4 DEF Exact
  <2>6. scannedSidecar(s) = ScanOf(disk)[2][s]
    <3>1. isSidecar(disk, s) /\ disk[s] # 0
      BY <2>1, <2>5 DEF Matching, ScanMatches, isSidecar
    <3>2. run.scanned[Owner[s]] = disk[Owner[s]]
      <4>1. ScanOf(disk)[1] = [p \in Paths |-> IF isSidecar(disk, p) THEN 0 ELSE disk[p]]
        BY ScanFacts
      <4> QED
        BY <2>5, <4>1, OwnerFacts DEF isSidecar
    <3>3. ScanOf(disk)[2] = [t \in Sidecars |->
                IF isSidecar(disk, t) /\ disk[t] \notin BadVersions
                  THEN [etag |-> disk[t], source |-> disk[Owner[t]]] ELSE NoVariant]
      BY ScanFacts
    <3>4. scannedSidecar(s) = IF disk[s] \notin BadVersions
                                THEN [etag |-> disk[s], source |-> disk[Owner[s]]] ELSE NoVariant
      BY <2>5, <3>1, <3>2 DEF scannedSidecar, trusted, BuildSourceSidecarVariant
    <3> QED
      BY <3>1, <3>3, <3>4
  <2> QED
    BY <2>1, <2>2, <2>3, <2>5, <2>6 DEF Exact
<1>7. CASE SidecarsBuilt
  <2>1. /\ run'.pc = "reconcile" /\ run'.scanned = run.scanned /\ run'.sidecars = run.sidecars
        /\ run'.deleted = {p \in Paths : assets[p] # 0 /\ run.scanned[p] = 0} /\ run'.full = run.full
        /\ run.pc = "buildSidecars" /\ run.work = {}
        /\ clean' = clean /\ disk' = disk /\ assets' = assets
    BY <1>7 DEF SidecarsBuilt
  <2>2. SUFFICES ASSUME clean, run.full PROVE Exact'
    BY <2>1 DEF Exact
  <2>3. /\ run.scanned = ScanOf(disk)[1]
        /\ \A t \in Sidecars : run.sidecars[t] = ScanOf(disk)[2][t]
    BY <2>1, <2>2 DEF Exact
  <2>4. run.sidecars = ScanOf(disk)[2]
    <3>1. ScanOf(disk)[2] = [t \in Sidecars |-> ScanOf(disk)[2][t]]
      BY ScanFacts
    <3> QED
      BY <2>3, <3>1
  <2> QED
    BY <2>1, <2>3, <2>4 DEF Exact
<1>8. ASSUME NEW p \in Paths, SyncScannedAsset(p) PROVE Exact'
  <2>1. /\ run' = [run EXCEPT !.pc = "store", !.cur = <<p, run.scanned[p]>>, !.work = @ \ {p}]
        /\ run.pc = "reconcile" /\ clean' = clean /\ disk' = disk /\ assets' = assets
    BY <1>8 DEF SyncScannedAsset
  <2>2. /\ run'.pc = "store" /\ run'.scanned = run.scanned /\ run'.sidecars = run.sidecars
        /\ run'.deleted = run.deleted /\ run'.full = run.full
    BY <2>1
  <2> QED
    BY <2>1, <2>2 DEF Exact
<1>9. CASE StoreScannedAsset
  <2>1. /\ run'.pc = "reconcile" /\ run.pc = "store" /\ run'.scanned = run.scanned
        /\ run'.sidecars = run.sidecars /\ run'.deleted = run.deleted /\ run'.full = run.full
        /\ clean' = clean /\ disk' = disk
    BY <1>9 DEF StoreScannedAsset
  <2>2. run.cur \in Paths \X Nat /\ run.cur[2] = run.scanned[run.cur[1]] /\ run.cur[2] # 0
    BY <2>1 DEF Matching, ReconcileMatches
  <2>3. \A q \in Paths : assets'[q] = IF q = run.cur[1] THEN run.cur[2] ELSE assets[q]
    BY <1>9 DEF StoreScannedAsset
  <2> QED
    BY <2>1, <2>2, <2>3 DEF Exact
<1>10. CASE AssetsReconciled
  <2>1. /\ run'.pc = "removed" /\ run.pc = "reconcile" /\ run'.scanned = run.scanned
        /\ run'.sidecars = run.sidecars /\ run'.deleted = run.deleted /\ run'.full = run.full
        /\ clean' = clean /\ disk' = disk /\ assets' = assets
    BY <1>10 DEF AssetsReconciled, to
  <2> QED
    BY <2>1 DEF Exact
<1>11. ASSUME NEW p \in Paths, ReconcileRemovedAsset(p) PROVE Exact'
  <2>1. /\ run'.pc = "removed" /\ run.pc = "removed" /\ run'.scanned = run.scanned
        /\ run'.sidecars = run.sidecars /\ run'.deleted = run.deleted \ {p} /\ run'.full = run.full
        /\ clean' = clean /\ disk' = disk
    BY <1>11 DEF ReconcileRemovedAsset
  <2>2. \A q \in Paths : assets'[q] = IF q = p THEN 0 ELSE assets[q]
    BY <1>11 DEF ReconcileRemovedAsset
  <2> QED
    BY <2>1, <2>2 DEF Exact
<1>12. CASE RemovedReconciled
  <2>1. /\ run'.pc = "sidecarUpserts" /\ run.pc = "removed" /\ run.deleted = {}
        /\ run'.scanned = run.scanned /\ run'.sidecars = run.sidecars /\ run'.full = run.full
        /\ run'.work = {s \in Sidecars : run.sidecars[s] # NoVariant}
        /\ run'.deletedSidecars = {s \in Sidecars : variants[s] # NoVariant /\ run.sidecars[s] = NoVariant}
        /\ clean' = clean /\ disk' = disk /\ assets' = assets /\ variants' = variants
    BY <1>12 DEF RemovedReconciled
  <2>2. SUFFICES ASSUME clean, run.full PROVE Exact'
    BY <2>1 DEF Exact
  <2>3. /\ run.scanned = ScanOf(disk)[1] /\ run.sidecars = ScanOf(disk)[2]
        /\ \A p \in Paths : run.scanned[p] = 0 => assets[p] = 0
    BY <2>1, <2>2 DEF Exact
  <2>4. assets = run.scanned
    <3>1. \A p \in Paths : run.scanned[p] # 0 => assets[p] = run.scanned[p]
      BY <2>1 DEF Matching, ReconcileMatches
    <3> QED
      BY <2>3, <3>1
  <2> QED
    BY <2>1, <2>3, <2>4 DEF Exact
<1>13. ASSUME NEW s \in Sidecars, UpsertScannedSidecar(s) \/ DeleteStaleSidecar(s) PROVE Exact'
  <2>1. /\ run'.pc = "sidecarUpserts" /\ run.pc = "sidecarUpserts"
        /\ run'.scanned = run.scanned /\ run'.sidecars = run.sidecars /\ run'.full = run.full
        /\ clean' = clean /\ disk' = disk /\ assets' = assets
    BY <1>13 DEF UpsertScannedSidecar, DeleteStaleSidecar
  <2>2. SUFFICES ASSUME clean, run.full PROVE Exact'
    BY <2>1 DEF Exact
  <2>3. /\ run.scanned = ScanOf(disk)[1] /\ run.sidecars = ScanOf(disk)[2] /\ assets = run.scanned
        /\ \A t \in Sidecars : variants[t] # run.sidecars[t] => t \in run.work \cup run.deletedSidecars
        /\ run.deletedSidecars \subseteq {t \in Sidecars : run.sidecars[t] = NoVariant}
    BY <2>1, <2>2 DEF Exact
  <2>4. /\ run'.work \cup run'.deletedSidecars \cup {s} = run.work \cup run.deletedSidecars \cup {s}
        /\ run'.deletedSidecars \subseteq run.deletedSidecars
    BY <1>13 DEF UpsertScannedSidecar, DeleteStaleSidecar
  <2>5. /\ \A t \in Sidecars : t # s => variants'[t] = variants[t]
        /\ variants'[s] = run.sidecars[s]
    BY <1>13, <2>3 DEF UpsertScannedSidecar, DeleteStaleSidecar
  <2>6. \A t \in Sidecars : variants'[t] # run'.sidecars[t] => t \in run'.work \cup run'.deletedSidecars
    <3>1. SUFFICES ASSUME NEW t \in Sidecars, variants'[t] # run'.sidecars[t]
                   PROVE  t \in run'.work \cup run'.deletedSidecars
      OBVIOUS
    <3>2. t # s /\ variants'[t] = variants[t]
      BY <2>1, <2>5, <3>1
    <3>3. t \in run.work \cup run.deletedSidecars
      BY <2>1, <2>3, <3>1, <3>2
    <3> QED
      BY <2>4, <3>2, <3>3, Zenon
  <2>7. run'.deletedSidecars \subseteq {t \in Sidecars : run'.sidecars[t] = NoVariant}
    BY <2>1, <2>3, <2>4
  <2> QED
    BY <2>1, <2>3, <2>6, <2>7 DEF Exact
<1>14. CASE FullDone
  <2>1. /\ run'.pc = "publish" /\ run.pc = "sidecarUpserts" /\ run.work = {} /\ run.deletedSidecars = {}
        /\ run'.full = run.full
        /\ clean' = clean /\ disk' = disk /\ assets' = assets /\ variants' = variants
    BY <1>14 DEF FullDone, to
  <2>2. SUFFICES ASSUME clean, run.full PROVE Exact'
    BY <2>1 DEF Exact
  <2>3. /\ assets = ScanOf(disk)[1] /\ run.sidecars = ScanOf(disk)[2]
        /\ \A t \in Sidecars : variants[t] = run.sidecars[t]
    BY <2>1, <2>2 DEF Exact
  <2>4. variants = ScanOf(disk)[2]
    BY <2>3
  <2>5. <<assets, variants>> = ScanOf(disk)
    BY <2>3, <2>4 DEF ScanOf
  <2> QED
    BY <2>1, <2>5 DEF Exact, InSync
<1> QED
  BY <1>1, <1>2, <1>3, <1>4, <1>5, <1>6, <1>7, <1>8, <1>9, <1>10, <1>11, <1>12, <1>13, <1>14 DEF SyncFull

(***************************************************************************)
(* ExactStep: every step keeps Exact.                                      *)
(***************************************************************************)
LEMMA ExactStep == Types /\ Matching /\ OnlyScansAreFull /\ Exact /\ [Next]_vars => Exact'
<1> SUFFICES ASSUME Types, Matching, OnlyScansAreFull, Exact, [Next]_vars PROVE Exact'
  OBVIOUS
<1>1. CASE UNCHANGED vars
  BY <1>1, ExactKept DEF vars, source, cat
<1> QED
  BY <1>1, ExactOutside, ExactFull DEF Next, RunSteps

(***************************************************************************)
(* FullRescansAreExact: a full run during which no file changed leaves in  *)
(* the catalog exactly what a scan shows, whatever was in it before.       *)
(***************************************************************************)
THEOREM FullRescansAreExact == Spec => []FullRescanIsExact
<1> DEFINE Inv == Types /\ Matching /\ OnlyScansAreFull /\ Exact
<1>1. Init => Inv
  BY TypesInit, MatchingInit DEF Init, OnlyScansAreFull, Exact, idleRun
<1>2. Inv /\ [Next]_vars => Inv'
  BY TypesStep, MatchingStep, FullOnlyStep, ExactStep
<1>3. Inv => FullRescanIsExact
  BY DEF Exact, FullRescanIsExact
<1> QED
  BY <1>1, <1>2, <1>3, PTL DEF Spec
-----------------------------------------------------------------------------
(* WatchedIsNeverStale *)

(***************************************************************************)
(* Owed(p): something will still make a run look at p.  An event covers p  *)
(* if it forces a full run or names p, except that a write event of a file *)
(* that is gone covers nothing: recordAssetWrite drops it.  The watcher's  *)
(* batch counts until its run has taken the change over.                   *)
(***************************************************************************)
Covers(e, p) == e.op \in {"RENAME", "overflow"} \/ (e.path = p /\ (e.op = "REMOVE" \/ disk[p] # 0))
CoveredBy(q, p) == \E i \in 1 .. Len(q) : Covers(q[i], p)
Waiting(p) ==
    \E i \in 1 .. Len(batch) :
       /\ Covers(batch[i], p)
       /\ rescanMu # "watcher" \/ (run.pc = "build" /\ i \notin run.work)
Owed(p) == lost \/ CoveredBy(notify, p) \/ CoveredBy(changes, p) \/ CoveredBy(pending, p) \/ Waiting(p)
Fresh(v, p) == v \in {0, disk[p]} \/ Owed(p)

Incrementally == {"build", "apply", "upsert", "sidecars"}

\* Who runs: incremental runs are the watcher's, and it holds on to its batch.
\* The channel holds at most one change.
Holder ==
    /\ rescanMu \in {"free", "watcher", "scheduler"}
    /\ rescanMu = "free" <=> run.pc = "idle"
    /\ run.pc \in Incrementally => rescanMu = "watcher"
    /\ rescanMu = "watcher" => batch # <<>>
    /\ Len(changes) <= 1

\* An asset version in the catalog is fresh, or the run has the path on one of its lists,
\* or it has been passed over.
FreshAssets ==
    /\ run.pc \in {"idle", "publish", "sidecarUpserts"} => \A a \in Paths : Fresh(assets[a], a) \/ a \in passedOver
    /\ run.pc \in Incrementally => \A a \in Paths :
         \/ Fresh(assets[a], a) \/ a \in passedOver \/ a \in run.deleted \cup run.changed
         \/ run.pc = "upsert" /\ a = run.cur[1]
    /\ run.pc = "upsert" => \A a \in Paths : a = run.cur[1] => Fresh(run.cur[2], a)
    /\ run.pc \in {"reconcile", "store", "removed"} => \A a \in Paths :
         \/ Fresh(assets[a], a) \/ a \in passedOver \/ a \in run.deleted
         \/ run.pc # "removed" /\ a \in run.work
         \/ run.pc = "store" /\ a = run.cur[1]

\* What a full run has collected is fresh.
FreshScan ==
    /\ run.pc = "walk" => \A p \in Paths \ run.work : Fresh(run.files[p], p)
    /\ run.pc \in {"buildAssets", "buildSidecars"} => \A p \in Paths : Fresh(run.files[p], p)
    /\ run.pc \in {"buildAssets", "buildSidecars"} \cup Reconciling =>
         \A p \in Paths : Fresh(run.scanned[p], p)
    /\ run.pc \in {"buildSidecars"} \cup Reconciling => \A s \in Sidecars : Fresh(run.sidecars[s].etag, s)

\* A sidecar variant is fresh, or the run has it or its owner on one of its lists.
FreshSidecars ==
    /\ run.pc \in {"idle", "publish"} => \A s \in Sidecars : Fresh(variants[s].etag, s)
    /\ run.pc \in Incrementally => \A s \in Sidecars :
         \/ Fresh(variants[s].etag, s) \/ s \in run.deletedSidecars \cup run.changedSidecars
         \/ run.pc # "build" /\ Owner[s] \in run.deleted
    /\ run.pc = "sidecarUpserts" => \A s \in Sidecars :
         Fresh(variants[s].etag, s) \/ s \in run.work \cup run.deletedSidecars

NeverStale == Holder /\ FreshAssets /\ FreshScan /\ FreshSidecars

(***************************************************************************)
(* OwedKept: whatever was owed is owed after the step, and so is whatever  *)
(* the step changes on disk.                                               *)
(***************************************************************************)
OwedKept == \A p \in Paths : Owed(p)' \/ (disk'[p] = disk[p] /\ ~Owed(p))

(***************************************************************************)
(* OwedByEdit: an edit covers what it changes, unless its event is missed. *)
(***************************************************************************)
LEMMA OwedByEdit ==
    ASSUME Types, NEW newDisk, NEW events \in Seq(Events), Edit(newDisk, events),
           \A p \in Paths : \/ newDisk[p] = disk[p]
                            \/ \E i \in 1 .. Len(events) : Covers(events[i], p)'
    PROVE  OwedKept
<1> SUFFICES ASSUME NEW p \in Paths PROVE Owed(p)' \/ (disk'[p] = disk[p] /\ ~Owed(p))
  BY DEF OwedKept
<1> USE DEF Types
<1>1. CASE lost'
  BY <1>1 DEF Owed
<1>2. CASE ~lost'
  <2>1. /\ notify' = notify \o events /\ disk' = newDisk /\ lost' = lost
        /\ UNCHANGED <<changes, pending, batch, rescanMu, run>>
    BY <1>2 DEF Edit
  <2>2. /\ Len(notify') = Len(notify) + Len(events) /\ Len(notify) \in Nat /\ Len(events) \in Nat
        /\ \A i \in 1 .. Len(notify) : notify'[i] = notify[i]
        /\ \A i \in 1 .. Len(events) : notify'[Len(notify) + i] = events[i]
    BY <2>1, ConcatProperties, LenProperties
  <2>3. CASE \E i \in 1 .. Len(events) : Covers(events[i], p)'
    <3>1. PICK i \in 1 .. Len(events) : Covers(events[i], p)'
      BY <2>3
    <3>2. Len(notify) + i \in 1 .. Len(notify') /\ notify'[Len(notify) + i] = events[i]
      BY <2>2
    <3>3. CoveredBy(notify, p)'
      BY <3>1, <3>2 DEF CoveredBy, Covers
    <3> QED
      BY <3>3 DEF Owed
  <2>4. CASE newDisk[p] = disk[p]
    <3>1. disk'[p] = disk[p]
      BY <2>1, <2>4
    <3>2. CoveredBy(notify, p) => CoveredBy(notify, p)'
      BY <2>2, <3>1 DEF CoveredBy, Covers
    <3>3. /\ CoveredBy(changes, p) => CoveredBy(changes, p)'
          /\ CoveredBy(pending, p) => CoveredBy(pending, p)'
          /\ Waiting(p) => Waiting(p)'
      BY <2>1, <3>1 DEF CoveredBy, Covers, Waiting
    <3> QED
      BY <2>1, <3>1, <3>2, <3>3 DEF Owed
  <2> QED
    BY <2>3, <2>4
<1> QED
  BY <1>1, <1>2

(***************************************************************************)
(* OwedOutside: edits and the watcher's queues keep what is owed.          *)
(***************************************************************************)
LEMMA OwedOutside ==
    ASSUME Types, Holder, EditFiles \/ WatchEvent \/ RecordPending \/ FlushPending
    PROVE  OwedKept
<1> USE DEF Types
<1>1. CASE EditFiles
  <2>a. \A p \in Paths : \A op \in {"WRITE", "CREATE", "REMOVE", "RENAME"} : Change(p, op) \in Events
    BY DEF Change, Events
  <2>1. ASSUME NEW p \in Paths, WriteFile(p) PROVE OwedKept
    <3> DEFINE newDisk == [disk EXCEPT ![p] = edits + 1]
    <3> DEFINE events == <<Change(p, "WRITE")>>
    <3>1. Edit(newDisk, events) /\ disk' = newDisk
      BY <2>1 DEF WriteFile, Edit
    <3>2. events \in Seq(Events)
      BY <2>a
    <3>3. Len(events) = 1 /\ events[1].path = p /\ events[1].op = "WRITE" /\ 1 \in 1 .. 1
      BY DEF Change
    <3>4. newDisk[p] # 0 /\ \A q \in Paths : q # p => newDisk[q] = disk[q]
      OBVIOUS
    <3> HIDE DEF newDisk, events
    <3>5. \A q \in Paths : \/ newDisk[q] = disk[q]
                           \/ \E i \in 1 .. Len(events) : Covers(events[i], q)'
      BY <3>1, <3>3, <3>4 DEF Covers
    <3> QED
      BY <3>1, <3>2, <3>5, OwedByEdit
  <2>2. ASSUME NEW p \in Paths, RemoveFile(p) PROVE OwedKept
    <3> DEFINE newDisk == [disk EXCEPT ![p] = 0]
    <3> DEFINE events == <<Change(p, "REMOVE")>>
    <3>1. Edit(newDisk, events)
      BY <2>2 DEF RemoveFile
    <3>2. events \in Seq(Events)
      BY <2>a
    <3>3. Len(events) = 1 /\ events[1].path = p /\ events[1].op = "REMOVE" /\ 1 \in 1 .. 1
      BY DEF Change
    <3>4. \A q \in Paths : q # p => newDisk[q] = disk[q]
      OBVIOUS
    <3> HIDE DEF newDisk, events
    <3>5. \A q \in Paths : \/ newDisk[q] = disk[q]
                           \/ \E i \in 1 .. Len(events) : Covers(events[i], q)'
      BY <3>3, <3>4 DEF Covers
    <3> QED
      BY <3>1, <3>2, <3>5, OwedByEdit
  <2>3. ASSUME NEW p \in Paths, NEW q \in Paths, RenameFile(p, q) PROVE OwedKept
    <3> DEFINE newDisk == [disk EXCEPT ![p] = 0, ![q] = edits + 1]
    <3> DEFINE events == <<Change(p, "RENAME"), Change(q, "CREATE")>>
    <3>1. Edit(newDisk, events)
      BY <2>3 DEF RenameFile
    <3>2. events \in Seq(Events)
      BY <2>a
    <3>3. Len(events) = 2 /\ events[1].op = "RENAME" /\ 1 \in 1 .. 2
      BY DEF Change
    <3> HIDE DEF newDisk, events
    <3>4. \A r \in Paths : \E i \in 1 .. Len(events) : Covers(events[i], r)'
      BY <3>3 DEF Covers
    <3> QED
      BY <3>1, <3>2, <3>4, OwedByEdit
  <2> QED
    BY <1>1, <2>1, <2>2, <2>3 DEF EditFiles
<1>2. CASE WatchEvent
  <2> SUFFICES ASSUME NEW p \in Paths, Owed(p) PROVE Owed(p)'
    BY <1>2 DEF OwedKept, WatchEvent, source
  <2>1. /\ notify # <<>> /\ notify' = Tail(notify) /\ changes' = emitWatchChange(Head(notify))
        /\ UNCHANGED <<disk, pending, batch, rescanMu, run, lost>>
    BY <1>2 DEF WatchEvent, source
  <2>2. /\ Len(notify) \in Nat /\ Head(notify) = notify[1] /\ Len(notify') = Len(notify) - 1
        /\ \A i \in 1 .. Len(notify) - 1 : notify'[i] = notify[i + 1]
    BY <2>1, HeadTailProperties, LenProperties
  <2>3. changes' = <<FullRescan>> \/ (changes = <<>> /\ changes' = <<Head(notify)>>)
    BY <2>1 DEF emitWatchChange
  <2>4. \A e : Covers(e, p) => Covers(e, p)'
    BY <2>1 DEF Covers
  <2>5. CASE changes' = <<FullRescan>>
    <3>1. CoveredBy(changes, p)'
      BY <2>5 DEF CoveredBy, Covers, FullRescan
    <3> QED
      BY <3>1 DEF Owed
  <2>6. CASE changes = <<>> /\ changes' = <<Head(notify)>>
    <3>1. CoveredBy(notify, p) => CoveredBy(notify, p)' \/ CoveredBy(changes, p)'
      <4>1. SUFFICES ASSUME NEW i \in 1 .. Len(notify), Covers(notify[i], p)
                     PROVE  CoveredBy(notify, p)' \/ CoveredBy(changes, p)'
        BY DEF CoveredBy
      <4>2. CASE i = 1
        <5>1. Len(changes') = 1 /\ changes'[1] = notify[1]
          BY <2>2, <2>6
        <5>2. CoveredBy(changes, p)'
          BY <2>1, <4>1, <4>2, <5>1 DEF CoveredBy, Covers
        <5> QED
          BY <5>2
      <4>3. CASE i # 1
        <5>1. i - 1 \in 1 .. Len(notify') /\ notify'[i - 1] = notify[i]
          BY <2>2, <4>3
        <5>2. CoveredBy(notify, p)'
          BY <2>1, <4>1, <5>1 DEF CoveredBy, Covers
        <5> QED
          BY <5>2
      <4> QED
        BY <4>2, <4>3
    <3>2. ~CoveredBy(changes, p)
      BY <2>6 DEF CoveredBy
    <3>3. (CoveredBy(pending, p) => CoveredBy(pending, p)') /\ (Waiting(p) => Waiting(p)')
      BY <2>1 DEF CoveredBy, Covers, Waiting
    <3> QED
      BY <2>1, <3>1, <3>2, <3>3 DEF Owed
  <2> QED
    BY <2>3, <2>5, <2>6
<1>3. CASE RecordPending
  <2> SUFFICES ASSUME NEW p \in Paths, Owed(p) PROVE Owed(p)'
    BY <1>3 DEF OwedKept, RecordPending, source
  <2>1. /\ changes # <<>> /\ pending' = Append(pending, Head(changes)) /\ changes' = <<>>
        /\ UNCHANGED <<disk, notify, batch, rescanMu, run, lost>>
    BY <1>3 DEF RecordPending, source
  <2>2. Head(changes) = changes[1] /\ Head(changes) \in Events
    BY <2>1, HeadTailProperties
  <2>3. /\ Len(pending) \in Nat /\ Len(pending') = Len(pending) + 1
        /\ \A i \in 1 .. Len(pending) : pending'[i] = pending[i]
        /\ pending'[Len(pending) + 1] = changes[1]
    BY <2>1, <2>2, AppendProperties, LenProperties
  <2>4. CoveredBy(pending, p) => CoveredBy(pending, p)'
    BY <2>1, <2>3 DEF CoveredBy, Covers
  <2>5. CoveredBy(changes, p) => CoveredBy(pending, p)'
    <3>1. SUFFICES ASSUME Covers(changes[1], p) PROVE CoveredBy(pending, p)'
      BY LenProperties DEF CoveredBy, Holder
    <3>2. Len(pending) + 1 \in 1 .. Len(pending')
      BY <2>3
    <3> QED
      BY <2>1, <2>3, <3>1, <3>2 DEF CoveredBy, Covers
  <2>6. (CoveredBy(notify, p) => CoveredBy(notify, p)') /\ (Waiting(p) => Waiting(p)')
    BY <2>1 DEF CoveredBy, Covers, Waiting
  <2> QED
    BY <2>1, <2>4, <2>5, <2>6 DEF Owed
<1>4. CASE FlushPending
  <2> SUFFICES ASSUME NEW p \in Paths, Owed(p) PROVE Owed(p)'
    BY <1>4 DEF OwedKept, FlushPending, source
  <2>1. /\ batch = <<>> /\ batch' = pending /\ rescanMu # "watcher"
        /\ UNCHANGED <<disk, notify, changes, rescanMu, run, lost>>
    BY <1>4 DEF FlushPending, source, Holder
  <2>2. CoveredBy(pending, p) => Waiting(p)'
    BY <2>1 DEF CoveredBy, Covers, Waiting
  <2>3. ~Waiting(p)
    BY <2>1 DEF Waiting
  <2>4. (CoveredBy(notify, p) => CoveredBy(notify, p)') /\ (CoveredBy(changes, p) => CoveredBy(changes, p)')
    BY <2>1 DEF CoveredBy, Covers
  <2> QED
    BY <2>1, <2>2, <2>3, <2>4 DEF Owed
<1> QED
  BY <1>1, <1>2, <1>3, <1>4

(***************************************************************************)
(* OwedQuiet: a step of a run past its build leaves what is owed alone.    *)
(***************************************************************************)
LEMMA OwedQuiet ==
    ASSUME quietly, run.pc # "build", run'.pc # "build"
    PROVE  OwedKept /\ disk' = disk /\ passedOver' = passedOver /\ \A p \in Paths : Owed(p)' <=> Owed(p)
<1>1. UNCHANGED <<disk, notify, changes, pending, batch, rescanMu, lost, passedOver>>
  BY DEF quietly, recording, source, watch
<1>2. \A p \in Paths : Owed(p)' <=> Owed(p)
  BY <1>1 DEF Owed, CoveredBy, Covers, Waiting
<1> QED
  BY <1>1, <1>2 DEF OwedKept

(***************************************************************************)
(* HolderQuiet: a step of a run keeps who runs, and for whom.              *)
(***************************************************************************)
LEMMA HolderQuiet ==
    ASSUME Types, Holder, recording, run.pc # "idle", run'.pc \in Points \ {"idle"},
           run'.pc \in Incrementally => run.pc \in Incrementally
    PROVE  Holder'
BY DEF Holder, recording, watch

(***************************************************************************)
(* HolderOutside: so does what happens outside the loops of a run.         *)
(***************************************************************************)
LEMMA HolderOutside ==
    ASSUME Types, Holder,
           \/ EditFiles \/ WatchEvent \/ RecordPending \/ FlushPending
           \/ StartIncremental \/ StartScheduled \/ Publish \/ ReadError
    PROVE  Holder'
<1> USE DEF Types
<1>1. CASE EditFiles
  BY <1>1 DEF EditFiles, WriteFile, RemoveFile, RenameFile, Edit, Holder
<1>2. CASE WatchEvent
  <2>1. Len(changes') = 1
    BY <1>2 DEF WatchEvent, emitWatchChange
  <2>2. UNCHANGED <<batch, rescanMu, run>>
    BY <1>2 DEF WatchEvent
  <2> QED
    BY <2>1, <2>2 DEF Holder
<1>3. CASE RecordPending
  BY <1>3 DEF RecordPending, Holder
<1>4. CASE FlushPending
  BY <1>4 DEF FlushPending, Holder
<1>5. CASE StartIncremental
  <2>1. run'.pc = "build"
    BY <1>5, IdleRunType DEF StartIncremental, RunType
  <2> QED
    BY <1>5, <2>1 DEF StartIncremental, Holder, watch
<1>6. CASE StartScheduled
  <2>1. run'.pc = "walk"
    BY <1>6, IdleRunType DEF StartScheduled, beginWalk, RunType
  <2> QED
    BY <1>6, <2>1 DEF StartScheduled, Holder, watch, Incrementally
<1>7. CASE Publish \/ ReadError
  <2>1. run'.pc = "idle" /\ rescanMu' = "free" /\ changes' = changes
    BY <1>7 DEF Publish, ReadError, abort, endRun, idleRun
  <2> QED
    BY <2>1 DEF Holder, Incrementally
<1> QED
  BY <1>1, <1>2, <1>3, <1>4, <1>5, <1>6, <1>7

(***************************************************************************)
(* NeverStaleKept: what touches neither run nor catalog only has to keep   *)
(* what is owed.                                                           *)
(***************************************************************************)
LEMMA NeverStaleKept ==
    ASSUME Types, NeverStale, OwedKept, UNCHANGED <<run, cat, passedOver>>, Holder'
    PROVE  NeverStale'
<1>1. /\ run' = run /\ assets' = assets /\ variants' = variants /\ passedOver' = passedOver
      /\ \A p \in Paths : Owed(p)' \/ (disk'[p] = disk[p] /\ ~Owed(p))
  BY DEF cat, OwedKept
<1>2. FreshAssets'
  BY <1>1, OwnerFacts DEF NeverStale, FreshAssets, Fresh
<1>3. FreshScan'
  BY <1>1, OwnerFacts DEF NeverStale, FreshScan, Fresh
<1>4. FreshSidecars'
  BY <1>1, OwnerFacts DEF NeverStale, FreshSidecars, Fresh
<1> QED
  BY <1>2, <1>3, <1>4 DEF NeverStale

(***************************************************************************)
(* NeverStaleAbort: a failed run leaves everything owed, since lost is set *)
(* until the next walk.                                                    *)
(***************************************************************************)
LEMMA NeverStaleAbort ==
    ASSUME Types, NeverStale, abort
    PROVE  NeverStale'
<1>1. run'.pc = "idle" /\ rescanMu' = "free" /\ lost' /\ changes' = changes
  BY DEF abort, endRun, idleRun
<1>2. \A p \in Paths : Owed(p)'
  BY <1>1 DEF Owed
<1>3. Holder'
  BY <1>1 DEF NeverStale, Holder, Incrementally
<1>4. FreshAssets' /\ FreshSidecars'
  BY <1>1, <1>2, OwnerFacts DEF FreshAssets, FreshSidecars, Fresh, Incrementally
<1>5. FreshScan'
  BY <1>1 DEF FreshScan, Reconciling
<1> QED
  BY <1>3, <1>4, <1>5 DEF NeverStale

(***************************************************************************)
(* NeverStaleWalk: a run that begins to walk will look at every file.      *)
(***************************************************************************)
LEMMA NeverStaleWalk ==
    ASSUME beginWalk, Holder'
    PROVE  NeverStale'
<1>1. run'.pc = "walk" /\ run'.work = Paths
  BY IdleRunType DEF beginWalk, RunType
<1> QED
  BY <1>1 DEF NeverStale, FreshAssets, FreshSidecars, FreshScan, Reconciling, Incrementally

(***************************************************************************)
(* NeverStaleOutside: what happens outside the loops of a run.             *)
(***************************************************************************)
LEMMA NeverStaleOutside ==
    ASSUME Types, NeverStale,
           \/ EditFiles \/ WatchEvent \/ RecordPending \/ FlushPending
           \/ StartIncremental \/ StartScheduled \/ Publish \/ ReadError
    PROVE  NeverStale'
<1>1. Holder /\ Holder'
  BY HolderOutside DEF NeverStale
<1>2. CASE EditFiles \/ WatchEvent \/ RecordPending \/ FlushPending
  <2>1. UNCHANGED <<run, cat, passedOver>>
    BY <1>2 DEF EditFiles, WriteFile, RemoveFile, RenameFile, Edit, WatchEvent, RecordPending, FlushPending
  <2> QED
    BY <1>1, <1>2, <2>1, OwedOutside, NeverStaleKept
<1>3. CASE StartIncremental
  <2>1. run'.pc = "build" /\ run'.work = {} /\ run.pc = "idle"
    BY <1>1, <1>3, IdleRunType DEF StartIncremental, RunType, idleRun, Holder
  <2>2. /\ UNCHANGED <<disk, notify, changes, pending, batch, lost, assets, variants, passedOver>>
        /\ rescanMu = "free" /\ rescanMu' = "watcher"
    BY <1>3 DEF StartIncremental, source, watch, cat
  <2>3. \A p \in Paths : Owed(p)' <=> Owed(p)
    <3> SUFFICES ASSUME NEW p \in Paths PROVE Owed(p)' <=> Owed(p)
      OBVIOUS
    <3>1. Waiting(p)' <=> Waiting(p)
      BY <2>1, <2>2 DEF Waiting, Covers
    <3>2. /\ CoveredBy(notify, p)' <=> CoveredBy(notify, p)
          /\ CoveredBy(changes, p)' <=> CoveredBy(changes, p)
          /\ CoveredBy(pending, p)' <=> CoveredBy(pending, p)
      BY <2>2 DEF CoveredBy, Covers
    <3> QED
      BY <2>2, <3>1, <3>2 DEF Owed
  <2>4. FreshAssets' /\ FreshSidecars'
    BY <2>1, <2>2, <2>3, OwnerFacts DEF NeverStale, FreshAssets, FreshSidecars, Fresh, Incrementally
  <2>5. FreshScan'
    BY <2>1 DEF FreshScan, Reconciling
  <2> QED
    BY <1>1, <2>4, <2>5 DEF NeverStale
<1>4. CASE StartScheduled
  BY <1>1, <1>4, NeverStaleWalk DEF StartScheduled
<1>5. CASE Publish
  <2>1. run'.pc = "idle" /\ run.pc = "publish" /\ rescanMu' = "free"
    BY <1>5 DEF Publish, endRun, idleRun
  <2>2. /\ UNCHANGED <<disk, notify, changes, pending, lost, assets, variants, passedOver>>
        /\ rescanMu = "watcher" \/ batch' = batch
    BY <1>5 DEF Publish, endRun, source, cat
  <2>3. \A p \in Paths : Owed(p) => Owed(p)'
    <3> SUFFICES ASSUME NEW p \in Paths PROVE Owed(p) => Owed(p)'
      OBVIOUS
    <3>1. Waiting(p) => Waiting(p)'
      BY <2>1, <2>2 DEF Waiting, Covers
    <3>2. /\ CoveredBy(notify, p)' <=> CoveredBy(notify, p)
          /\ CoveredBy(changes, p)' <=> CoveredBy(changes, p)
          /\ CoveredBy(pending, p)' <=> CoveredBy(pending, p)
      BY <2>2 DEF CoveredBy, Covers
    <3> QED
      BY <2>2, <3>1, <3>2 DEF Owed
  <2>4. FreshAssets' /\ FreshSidecars'
    BY <2>1, <2>2, <2>3, OwnerFacts DEF NeverStale, FreshAssets, FreshSidecars, Fresh, Incrementally
  <2>5. FreshScan'
    BY <2>1 DEF FreshScan, Reconciling
  <2> QED
    BY <1>1, <2>4, <2>5 DEF NeverStale
<1>6. CASE ReadError
  BY <1>6, NeverStaleAbort DEF ReadError
<1> QED
  BY <1>2, <1>3, <1>4, <1>5, <1>6

(***************************************************************************)
(* RecordFacts: what a building run takes over of the change it looks at.  *)
(***************************************************************************)
LEMMA RecordFacts ==
    ASSUME Types, RecordWrite \/ RecordDelete
    PROVE  /\ run.pc = "build" /\ run'.pc = "build" /\ run'.work = run.work \cup {seen + 1}
           /\ run.deleted \cup run.changed \subseteq run'.deleted \cup run'.changed
           /\ run.deletedSidecars \cup run.changedSidecars
                \subseteq run'.deletedSidecars \cup run'.changedSidecars
           /\ \A p \in Paths : Covers(change, p) =>
                IF p \in Sidecars THEN p \in run'.deletedSidecars \cup run'.changedSidecars
                                  ELSE p \in run'.deleted \cup run'.changed
<1> USE DEF Types, RunType, Points
<1> DEFINE p == change.path
<1>1. run.pc = "build" /\ building
  BY DEF RecordWrite, RecordDelete, building
<1>2. change.op \notin {"RENAME", "overflow"}
  BY DEF RecordWrite, RecordDelete
<1>3. \A r \in RunType : \A k :
        /\ [r EXCEPT !.work = @ \cup {k}].work = r.work \cup {k}
        /\ [r EXCEPT !.work = @ \cup {k}].pc = r.pc
        /\ [r EXCEPT !.work = @ \cup {k}].deleted = r.deleted
        /\ [r EXCEPT !.work = @ \cup {k}].changed = r.changed
        /\ [r EXCEPT !.work = @ \cup {k}].deletedSidecars = r.deletedSidecars
        /\ [r EXCEPT !.work = @ \cup {k}].changedSidecars = r.changedSidecars
  OBVIOUS
<1>4. p \in Paths
  BY <1>1, <1>2, ChangeFacts
<1>5. \E r \in RunType :
        /\ run' = [r EXCEPT !.work = @ \cup {seen + 1}] /\ r.pc = run.pc /\ r.work = run.work
        /\ run.deleted \cup run.changed \subseteq r.deleted \cup r.changed
        /\ run.deletedSidecars \cup run.changedSidecars \subseteq r.deletedSidecars \cup r.changedSidecars
        /\ change.op = "REMOVE" \/ disk[p] # 0 =>
             IF p \in Sidecars THEN p \in r.deletedSidecars \cup r.changedSidecars
                               ELSE p \in r.deleted \cup r.changed
  <2>1. CASE RecordWrite
    <3> DEFINE r == recordAssetWrite(p)
    <3>1. run' = [r EXCEPT !.work = @ \cup {seen + 1}] /\ change.op # "REMOVE"
      BY <2>1 DEF RecordWrite
    <3>2. CASE disk[p] = 0
      <4>1. r = run
        BY <3>2 DEF recordAssetWrite
      <4> QED
        BY <3>1, <3>2, <4>1
    <3>3. CASE disk[p] # 0 /\ p \in Sidecars
      <4>1. r = [run EXCEPT !.changedSidecars = @ \cup {p}]
        BY <3>3 DEF recordAssetWrite
      <4> HIDE DEF r, p
      <4>2. /\ r \in RunType /\ r.pc = run.pc /\ r.work = run.work /\ r.deleted = run.deleted
            /\ r.changed = run.changed /\ r.deletedSidecars = run.deletedSidecars
            /\ r.changedSidecars = run.changedSidecars \cup {p}
        BY <3>3, <4>1
      <4> HIDE DEF RunType
      <4> QED
        BY <3>1, <3>3, <4>2
    <3>4. CASE disk[p] # 0 /\ p \notin Sidecars
      <4>1. r = [run EXCEPT !.changed = @ \cup {p}]
        BY <3>4 DEF recordAssetWrite
      <4> HIDE DEF r, p
      <4>2. /\ r \in RunType /\ r.pc = run.pc /\ r.work = run.work /\ r.deleted = run.deleted
            /\ r.changed = run.changed \cup {p} /\ r.deletedSidecars = run.deletedSidecars
            /\ r.changedSidecars = run.changedSidecars
        BY <1>4, <4>1
      <4> HIDE DEF RunType
      <4> QED
        BY <3>1, <3>4, <4>2
    <3> QED
      BY <3>2, <3>3, <3>4
  <2>2. CASE RecordDelete
    <3> DEFINE r == recordAssetDelete(p)
    <3>1. run' = [r EXCEPT !.work = @ \cup {seen + 1}]
      BY <2>2 DEF RecordDelete
    <3>2. CASE p \in Sidecars
      <4>1. r = [run EXCEPT !.deletedSidecars = @ \cup {p}]
        BY <3>2 DEF recordAssetDelete
      <4> HIDE DEF r, p
      <4>2. /\ r \in RunType /\ r.pc = run.pc /\ r.work = run.work /\ r.deleted = run.deleted
            /\ r.changed = run.changed /\ r.deletedSidecars = run.deletedSidecars \cup {p}
            /\ r.changedSidecars = run.changedSidecars
        BY <3>2, <4>1
      <4> HIDE DEF RunType
      <4> QED
        BY <3>1, <3>2, <4>2
    <3>3. CASE p \notin Sidecars
      <4>1. r = [run EXCEPT !.deleted = @ \cup {p}, !.changed = @ \ {p}]
        BY <3>3 DEF recordAssetDelete
      <4> HIDE DEF r, p
      <4>2. /\ r \in RunType /\ r.pc = run.pc /\ r.work = run.work /\ r.deleted = run.deleted \cup {p}
            /\ r.changed = run.changed \ {p} /\ r.deletedSidecars = run.deletedSidecars
            /\ r.changedSidecars = run.changedSidecars
        BY <1>4, <4>1
      <4> HIDE DEF RunType
      <4> QED
        BY <3>1, <3>3, <4>2
    <3> QED
      BY <3>2, <3>3
  <2> QED
    BY <2>1, <2>2
<1> HIDE DEF RunType
<1>6. PICK r \in RunType :
        /\ run' = [r EXCEPT !.work = @ \cup {seen + 1}] /\ r.pc = run.pc /\ r.work = run.work
        /\ run.deleted \cup run.changed \subseteq r.deleted \cup r.changed
        /\ run.deletedSidecars \cup run.changedSidecars \subseteq r.deletedSidecars \cup r.changedSidecars
        /\ change.op = "REMOVE" \/ disk[p] # 0 =>
             IF p \in Sidecars THEN p \in r.deletedSidecars \cup r.changedSidecars
                               ELSE p \in r.deleted \cup r.changed
  BY <1>5
<1>7. /\ run'.work = r.work \cup {seen + 1} /\ run'.pc = r.pc
      /\ run'.deleted = r.deleted /\ run'.changed = r.changed
      /\ run'.deletedSidecars = r.deletedSidecars /\ run'.changedSidecars = r.changedSidecars
  BY <1>3, <1>6
<1> QED
  BY <1>1, <1>2, <1>6, <1>7 DEF Covers

(***************************************************************************)
(* NeverStaleBuild: while the changes are sorted into lists, what a change *)
(* covered is covered by its list.                                         *)
(***************************************************************************)
LEMMA NeverStaleBuild ==
    ASSUME Types, NeverStale, RecordWrite \/ RecordDelete \/ NormalizeTargets \/ FallBackToFull
    PROVE  NeverStale'
<1> USE DEF Types
<1>1. CASE RecordWrite \/ RecordDelete
  <2>1. /\ run.pc = "build" /\ run'.pc = "build" /\ run'.work = run.work \cup {seen + 1}
        /\ run.deleted \cup run.changed \subseteq run'.deleted \cup run'.changed
        /\ run.deletedSidecars \cup run.changedSidecars
             \subseteq run'.deletedSidecars \cup run'.changedSidecars
    BY <1>1, RecordFacts
  <2>2. \A p \in Paths : Covers(change, p) =>
          IF p \in Sidecars THEN p \in run'.deletedSidecars \cup run'.changedSidecars
                            ELSE p \in run'.deleted \cup run'.changed
    BY <1>1, RecordFacts
  <2>3. /\ recording
        /\ UNCHANGED <<disk, notify, changes, pending, batch, rescanMu, lost, assets, variants>>
        /\ passedOver' = passedOver \cup {s \in Sidecars : s = change.path /\ assets[s] # 0}
    BY <1>1 DEF RecordWrite, RecordDelete, recording, passOver, catalogKept, source, watch, cat
  <2>4. \A p \in Paths : Owed(p) => Owed(p)' \/ Covers(change, p)
    <3> SUFFICES ASSUME NEW p \in Paths PROVE Owed(p) => Owed(p)' \/ Covers(change, p)
      OBVIOUS
    <3>1. Waiting(p) => Waiting(p)' \/ Covers(change, p)
      BY <2>1, <2>3 DEF Waiting, Covers, change
    <3>2. /\ CoveredBy(notify, p)' <=> CoveredBy(notify, p)
          /\ CoveredBy(changes, p)' <=> CoveredBy(changes, p)
          /\ CoveredBy(pending, p)' <=> CoveredBy(pending, p)
      BY <2>3 DEF CoveredBy, Covers
    <3> QED
      BY <2>3, <3>1, <3>2 DEF Owed
  <2>5. FreshAssets'
    <3>1. \A a \in Paths : Fresh(assets[a], a) \/ a \in passedOver \/ a \in run.deleted \cup run.changed
      BY <2>1 DEF NeverStale, FreshAssets, Incrementally
    <3>2. change.op \notin {"RENAME", "overflow"}
      BY <1>1 DEF RecordWrite, RecordDelete
    <3>3. ASSUME NEW a \in Paths, Covers(change, a), a \in Sidecars
          PROVE  assets'[a] = 0 \/ a \in passedOver'
      BY <2>3, <3>2, <3>3 DEF Covers
    <3>4. \A a \in Paths : \/ assets'[a] \in {0, disk'[a]} \/ Owed(a)' \/ a \in passedOver'
                          \/ a \in run'.deleted \cup run'.changed
      BY <2>1, <2>2, <2>3, <2>4, <3>1, <3>3 DEF Fresh
    <3> QED
      BY <2>1, <3>4 DEF FreshAssets, Fresh
  <2>6. FreshSidecars'
    <3>1. \A s \in Sidecars : Fresh(variants[s].etag, s) \/ s \in run.deletedSidecars \cup run.changedSidecars
      BY <2>1 DEF NeverStale, FreshSidecars, Incrementally
    <3>2. \A s \in Sidecars : \/ variants'[s].etag \in {0, disk'[s]} \/ Owed(s)'
                              \/ s \in run'.deletedSidecars \cup run'.changedSidecars
      BY <2>1, <2>2, <2>3, <2>4, <3>1, OwnerFacts DEF Fresh
    <3> QED
      BY <2>1, <3>2 DEF FreshSidecars, Fresh
  <2>7. FreshScan'
    BY <2>1 DEF FreshScan, Reconciling
  <2>8. Holder'
    BY <2>1, <2>3, HolderQuiet DEF NeverStale, Points
  <2> QED
    BY <2>5, <2>6, <2>7, <2>8 DEF NeverStale
<1>2. CASE NormalizeTargets
  <2>1. run.pc = "build" /\ seen = Len(batch) /\ recording
        /\ UNCHANGED <<disk, notify, changes, pending, batch, rescanMu, lost, assets, variants, passedOver>>
    BY <1>2 DEF NormalizeTargets, quietly, recording, catalogKept, source, watch, cat
  <2>2. /\ run'.pc = "apply" /\ run'.deleted = run.deleted /\ run'.changed = run.changed \ run.deleted
        /\ run'.deletedSidecars = run.deletedSidecars
        /\ run'.changedSidecars = {s \in run.changedSidecars : Owner[s] \notin run.deleted}
    <3> DEFINE r == normalizeIncrementalTargets(run)
    <3>1. r = [run EXCEPT !.changed = @ \ run.deleted,
                          !.changedSidecars = {s \in @ : Owner[s] \notin run.deleted}]
      BY DEF normalizeIncrementalTargets
    <3>2. run' = [r EXCEPT !.pc = "apply", !.work = {}]
      BY <1>2 DEF NormalizeTargets
    <3> HIDE DEF r
    <3>3. /\ r \in RunType /\ r.deleted = run.deleted /\ r.changed = run.changed \ run.deleted
          /\ r.deletedSidecars = run.deletedSidecars
          /\ r.changedSidecars = {s \in run.changedSidecars : Owner[s] \notin run.deleted}
      BY <3>1 DEF RunType
    <3> QED
      BY <3>2, <3>3 DEF RunType
  <2>3. \A p \in Paths : ~Waiting(p)
    <3>1. run.work = 1 .. Len(batch) /\ rescanMu = "watcher"
      BY <2>1, SeenFacts DEF NeverStale, Holder, Incrementally
    <3> QED
      BY <3>1 DEF Waiting
  <2>4. \A p \in Paths : Owed(p) => Owed(p)'
    BY <2>1, <2>3 DEF Owed, CoveredBy, Covers
  <2>5. FreshAssets'
    <3>1. \A a \in Paths : Fresh(assets[a], a) \/ a \in passedOver \/ a \in run.deleted \cup run.changed
      BY <2>1 DEF NeverStale, FreshAssets, Incrementally
    <3> QED
      BY <2>1, <2>2, <2>4, <3>1, OwnerFacts DEF FreshAssets, Fresh
  <2>6. FreshSidecars'
    <3>1. \A s \in Sidecars : Fresh(variants[s].etag, s) \/ s \in run.deletedSidecars \cup run.changedSidecars
      BY <2>1 DEF NeverStale, FreshSidecars, Incrementally
    <3> QED
      BY <2>1, <2>2, <2>4, <3>1, OwnerFacts DEF FreshSidecars, Fresh
  <2>7. FreshScan'
    BY <2>2 DEF FreshScan, Reconciling
  <2>8. Holder'
    BY <2>1, <2>2, HolderQuiet DEF NeverStale, Points, Incrementally
  <2> QED
    BY <2>5, <2>6, <2>7, <2>8 DEF NeverStale
<1>3. CASE FallBackToFull
  <2>1. /\ beginWalk /\ run.pc = "build" /\ UNCHANGED <<batch, changes, rescanMu>>
    BY <1>3 DEF FallBackToFull, building, watch
  <2>2. run'.pc = "walk"
    BY <2>1, IdleRunType DEF beginWalk, RunType
  <2>3. Holder'
    BY <2>1, <2>2 DEF NeverStale, Holder, Incrementally
  <2> QED
    BY <2>1, <2>3, NeverStaleWalk
<1> QED
  BY <1>1, <1>2, <1>3

(***************************************************************************)
(* NeverStaleQuiet: what is left to show of a step of a run that is past   *)
(* its build.                                                              *)
(***************************************************************************)
LEMMA NeverStaleQuiet ==
    ASSUME Types, NeverStale, quietly, run.pc \notin {"idle", "build"}, run'.pc \in Points \ {"idle", "build"},
           run'.pc \in Incrementally => run.pc \in Incrementally,
           disk' = disk /\ passedOver' = passedOver /\ (\A p \in Paths : Owed(p)' <=> Owed(p)) =>
             FreshAssets' /\ FreshScan' /\ FreshSidecars'
    PROVE  NeverStale'
BY OwedQuiet, HolderQuiet DEF NeverStale, quietly

(***************************************************************************)
(* NeverStaleApply: an incremental run brings up to date what is on its    *)
(* lists.                                                                  *)
(***************************************************************************)
LEMMA NeverStaleApply ==
    ASSUME Types, Matching, NeverStale, SyncIncrementally,
           ~(RecordWrite \/ RecordDelete \/ NormalizeTargets \/ FallBackToFull)
    PROVE  NeverStale'
<1> USE DEF Types, RunType, Points, cat
<1>1. ASSUME NEW a \in Assets, ProcessDeletedAsset(a) PROVE NeverStale'
  <2>1. /\ quietly /\ run.pc = "apply" /\ run'.pc = "apply" /\ run'.deleted = run.deleted \ {a}
        /\ run'.changed = run.changed /\ run'.deletedSidecars = run.deletedSidecars
        /\ run'.changedSidecars = run.changedSidecars
    BY <1>1 DEF ProcessDeletedAsset
  <2>2. \A b \in Paths : assets'[b] = IF b = a THEN 0 ELSE assets[b]
    BY <1>1, OwnerFacts DEF ProcessDeletedAsset
  <2>3. \A s \in Sidecars : variants'[s] = IF Owner[s] = a THEN NoVariant ELSE variants[s]
    BY <1>1 DEF ProcessDeletedAsset, withoutVariantsOf
  <2>4. SUFFICES ASSUME disk' = disk, passedOver' = passedOver, \A p \in Paths : Owed(p)' <=> Owed(p)
                 PROVE  FreshAssets' /\ FreshScan' /\ FreshSidecars'
    BY <2>1, NeverStaleQuiet DEF Incrementally
  <2>5. FreshAssets'
    <3>1. \A b \in Paths : Fresh(assets[b], b) \/ b \in passedOver \/ b \in run.deleted \cup run.changed
      BY <2>1 DEF NeverStale, FreshAssets, Incrementally
    <3> QED
      BY <2>1, <2>2, <2>4, <3>1, OwnerFacts DEF FreshAssets, Fresh
  <2>6. FreshSidecars'
    <3>1. \A s \in Sidecars : \/ Fresh(variants[s].etag, s) \/ s \in run.deletedSidecars \cup run.changedSidecars
                              \/ Owner[s] \in run.deleted
      BY <2>1 DEF NeverStale, FreshSidecars, Incrementally
    <3> QED
      BY <2>1, <2>3, <2>4, <3>1, OwnerFacts DEF FreshSidecars, Fresh, NoVariant
  <2> QED
    BY <2>1, <2>5, <2>6 DEF FreshScan, Reconciling
<1>2. ASSUME NEW s \in Sidecars, ProcessDeletedSidecar(s) PROVE NeverStale'
  <2>1. /\ quietly /\ run.pc = "apply" /\ run'.pc = "apply" /\ run'.deleted = run.deleted
        /\ run'.changed = run.changed /\ run'.deletedSidecars = run.deletedSidecars \ {s}
        /\ run'.changedSidecars = run.changedSidecars /\ assets' = assets
    BY <1>2 DEF ProcessDeletedSidecar
  <2>2. \A t \in Sidecars : variants'[t] = IF t = s THEN NoVariant ELSE variants[t]
    BY <1>2 DEF ProcessDeletedSidecar
  <2>3. SUFFICES ASSUME disk' = disk, passedOver' = passedOver, \A p \in Paths : Owed(p)' <=> Owed(p)
                 PROVE  FreshAssets' /\ FreshScan' /\ FreshSidecars'
    BY <2>1, NeverStaleQuiet DEF Incrementally
  <2>4. FreshAssets'
    <3>1. \A b \in Paths : Fresh(assets[b], b) \/ b \in passedOver \/ b \in run.deleted \cup run.changed
      BY <2>1 DEF NeverStale, FreshAssets, Incrementally
    <3> QED
      BY <2>1, <2>3, <3>1, OwnerFacts DEF FreshAssets, Fresh
  <2>5. FreshSidecars'
    <3>1. \A t \in Sidecars : \/ Fresh(variants[t].etag, t) \/ t \in run.deletedSidecars \cup run.changedSidecars
                              \/ Owner[t] \in run.deleted
      BY <2>1 DEF NeverStale, FreshSidecars, Incrementally
    <3> QED
      BY <2>1, <2>2, <2>3, <3>1, OwnerFacts DEF FreshSidecars, Fresh, NoVariant
  <2> QED
    BY <2>1, <2>4, <2>5 DEF FreshScan, Reconciling
<1>3. ASSUME NEW a \in Assets, VanishedAsset(a) PROVE NeverStale'
  BY <1>3, NeverStaleAbort DEF VanishedAsset
<1>4. ASSUME NEW a \in Assets, ProcessChangedAsset(a) PROVE NeverStale'
  <2>1. quietly /\ run.pc = "apply" /\ assets' = assets
    BY <1>4 DEF ProcessChangedAsset
  <2>2. \A b \in Paths : Fresh(assets[b], b) \/ b \in passedOver \/ b \in run.deleted \cup run.changed
    BY <2>1 DEF NeverStale, FreshAssets, Incrementally
  <2>3. \A t \in Sidecars : \/ Fresh(variants[t].etag, t) \/ t \in run.deletedSidecars \cup run.changedSidecars
                            \/ Owner[t] \in run.deleted
    BY <2>1 DEF NeverStale, FreshSidecars, Incrementally
  <2>4. CASE assets[a] = disk[a]
    <3>1. run' = [run EXCEPT !.changed = @ \ {a}] /\ variants' = variants
      BY <1>4, <2>4 DEF ProcessChangedAsset
    <3>2. /\ run'.pc = "apply" /\ run'.deleted = run.deleted /\ run'.changed = run.changed \ {a}
          /\ run'.deletedSidecars = run.deletedSidecars /\ run'.changedSidecars = run.changedSidecars
      BY <2>1, <3>1
    <3>3. SUFFICES ASSUME disk' = disk, passedOver' = passedOver, \A p \in Paths : Owed(p)' <=> Owed(p)
                   PROVE  FreshAssets' /\ FreshScan' /\ FreshSidecars'
      BY <2>1, <3>2, NeverStaleQuiet DEF Incrementally
    <3>4. FreshAssets'
      BY <2>1, <2>2, <2>4, <3>2, <3>3, OwnerFacts DEF FreshAssets, Fresh
    <3>5. FreshSidecars'
      BY <2>3, <3>1, <3>2, <3>3, OwnerFacts DEF FreshSidecars, Fresh
    <3> QED
      BY <3>2, <3>4, <3>5 DEF FreshScan, Reconciling
  <2>5. CASE assets[a] # disk[a]
    <3>1. /\ run' = [run EXCEPT !.pc = "upsert", !.cur = <<a, disk[a]>>, !.changed = @ \ {a}]
          /\ variants' = withoutVariantsOf(a)
      BY <1>4, <2>5 DEF ProcessChangedAsset
    <3>2. /\ run'.pc = "upsert" /\ run'.deleted = run.deleted /\ run'.changed = run.changed \ {a}
          /\ run'.cur = <<a, disk[a]>> /\ run'.cur[1] = a /\ run'.cur[2] = disk[a]
          /\ run'.deletedSidecars = run.deletedSidecars /\ run'.changedSidecars = run.changedSidecars
      BY <3>1
    <3>3. \A s \in Sidecars : variants'[s] = IF Owner[s] = a THEN NoVariant ELSE variants[s]
      BY <3>1 DEF withoutVariantsOf
    <3>4. SUFFICES ASSUME disk' = disk, passedOver' = passedOver, \A p \in Paths : Owed(p)' <=> Owed(p)
                   PROVE  FreshAssets' /\ FreshScan' /\ FreshSidecars'
      BY <2>1, <3>2, NeverStaleQuiet DEF Incrementally
    <3>5. FreshAssets'
      BY <2>1, <2>2, <3>2, <3>4, OwnerFacts DEF FreshAssets, Fresh
    <3>6. FreshSidecars'
      <4>1. NoVariant.etag = 0
        BY DEF NoVariant
      <4>2. \A t \in Sidecars : \/ variants'[t].etag \in {0, disk'[t]} \/ Owed(t)'
                                \/ t \in run'.deletedSidecars \cup run'.changedSidecars
                                \/ Owner[t] \in run'.deleted
        BY <2>3, <3>2, <3>3, <3>4, <4>1, OwnerFacts DEF Fresh
      <4> QED
        BY <3>2, <4>2 DEF FreshSidecars, Fresh
    <3> QED
      BY <3>2, <3>5, <3>6 DEF FreshScan, Reconciling
  <2> QED
    BY <2>4, <2>5
<1>5. CASE UpsertChangedAsset
  <2>1. /\ quietly /\ run.pc = "upsert" /\ run'.pc = "sidecars" /\ run'.deleted = run.deleted
        /\ run'.changed = run.changed /\ run'.deletedSidecars = run.deletedSidecars
        /\ run'.changedSidecars = run.changedSidecars /\ variants' = variants
    BY <1>5 DEF UpsertChangedAsset
  <2>2. run.cur \in Assets \X Nat /\ run.cur[1] \in Assets /\ run.cur[1] \in Paths
    BY <2>1, OwnerFacts DEF Matching, IncrementalMatches
  <2>3. \A b \in Paths : assets'[b] = IF b = run.cur[1] THEN run.cur[2] ELSE assets[b]
    BY <1>5, <2>2, OwnerFacts DEF UpsertChangedAsset
  <2>4. SUFFICES ASSUME disk' = disk, passedOver' = passedOver, \A p \in Paths : Owed(p)' <=> Owed(p)
                 PROVE  FreshAssets' /\ FreshScan' /\ FreshSidecars'
    BY <2>1, NeverStaleQuiet DEF Incrementally
  <2>5. FreshAssets'
    <3>1. \A b \in Paths : Fresh(assets[b], b) \/ b \in passedOver \/ b \in run.deleted \cup run.changed \/ b = run.cur[1]
      BY <2>1 DEF NeverStale, FreshAssets, Incrementally
    <3>2. \A b \in Paths : b = run.cur[1] => Fresh(run.cur[2], b)
      BY <2>1 DEF NeverStale, FreshAssets
    <3>3. \A b \in Paths : \/ assets'[b] \in {0, disk'[b]} \/ Owed(b)' \/ b \in passedOver'
                          \/ b \in run'.deleted \cup run'.changed
      BY <2>1, <2>3, <2>4, <3>1, <3>2, OwnerFacts DEF Fresh
    <3> QED
      BY <2>1, <3>3 DEF FreshAssets, Fresh
  <2>6. FreshSidecars'
    <3>1. \A t \in Sidecars : \/ Fresh(variants[t].etag, t) \/ t \in run.deletedSidecars \cup run.changedSidecars
                              \/ Owner[t] \in run.deleted
      BY <2>1 DEF NeverStale, FreshSidecars, Incrementally
    <3> QED
      BY <2>1, <2>4, <3>1, OwnerFacts DEF FreshSidecars, Fresh
  <2> QED
    BY <2>1, <2>5, <2>6 DEF FreshScan, Reconciling
<1>6. ASSUME NEW s \in Sidecars, RebuildSidecar(s) PROVE NeverStale'
  <2>1. /\ quietly /\ run.pc = "sidecars" /\ run'.pc = "sidecars" /\ run'.deleted = run.deleted
        /\ run'.changed = run.changed /\ run'.deletedSidecars = run.deletedSidecars
        /\ run'.changedSidecars = run.changedSidecars /\ assets' = assets
    BY <1>6 DEF RebuildSidecar
  <2>2. /\ \A t \in Sidecars : t # s => variants'[t] = variants[t]
        /\ variants'[s] = variants[s] \/ variants'[s].etag = disk[s]
    BY <1>6 DEF RebuildSidecar, BuildSourceSidecarVariant
  <2>3. SUFFICES ASSUME disk' = disk, passedOver' = passedOver, \A p \in Paths : Owed(p)' <=> Owed(p)
                 PROVE  FreshAssets' /\ FreshScan' /\ FreshSidecars'
    BY <2>1, NeverStaleQuiet DEF Incrementally
  <2>4. FreshAssets'
    <3>1. \A b \in Paths : Fresh(assets[b], b) \/ b \in passedOver \/ b \in run.deleted \cup run.changed
      BY <2>1 DEF NeverStale, FreshAssets, Incrementally
    <3> QED
      BY <2>1, <2>3, <3>1, OwnerFacts DEF FreshAssets, Fresh
  <2>5. FreshSidecars'
    <3>1. \A t \in Sidecars : \/ Fresh(variants[t].etag, t) \/ t \in run.deletedSidecars \cup run.changedSidecars
                              \/ Owner[t] \in run.deleted
      BY <2>1 DEF NeverStale, FreshSidecars, Incrementally
    <3> QED
      BY <2>1, <2>2, <2>3, <3>1, OwnerFacts DEF FreshSidecars, Fresh
  <2> QED
    BY <2>1, <2>4, <2>5 DEF FreshScan, Reconciling
<1>7. CASE SidecarsRebuilt
  <2>1. /\ quietly /\ run.pc = "sidecars" /\ run'.pc = "apply" /\ run'.deleted = run.deleted
        /\ run'.changed = run.changed /\ run'.deletedSidecars = run.deletedSidecars
        /\ run'.changedSidecars = run.changedSidecars /\ assets' = assets /\ variants' = variants
    BY <1>7 DEF SidecarsRebuilt, catalogKept
  <2>2. SUFFICES ASSUME disk' = disk, passedOver' = passedOver, \A p \in Paths : Owed(p)' <=> Owed(p)
                 PROVE  FreshAssets' /\ FreshScan' /\ FreshSidecars'
    BY <2>1, NeverStaleQuiet DEF Incrementally
  <2>3. FreshAssets' /\ FreshSidecars'
    BY <2>1, <2>2, OwnerFacts DEF NeverStale, FreshAssets, FreshSidecars, Fresh, Incrementally
  <2> QED
    BY <2>1, <2>3 DEF FreshScan, Reconciling
<1>8. ASSUME NEW s \in Sidecars, ProcessChangedSidecar(s) PROVE NeverStale'
  <2>1. /\ quietly /\ run.pc = "apply" /\ run'.pc = "apply" /\ run'.deleted = run.deleted
        /\ run'.changed = run.changed /\ run'.deletedSidecars = run.deletedSidecars
        /\ run'.changedSidecars = run.changedSidecars \ {s} /\ assets' = assets
    BY <1>8 DEF ProcessChangedSidecar
  <2>2. /\ \A t \in Sidecars : t # s => variants'[t] = variants[t]
        /\ variants'[s].etag \in {0, disk[s]}
    <3>1. CASE assets[Owner[s]] = 0
      <4>1. variants' = variants
        BY <1>8, <3>1 DEF ProcessChangedSidecar
      <4>2. variants[s] = NoVariant
        BY <3>1 DEF Matching, VariantsMatchAssets
      <4> QED
        BY <4>1, <4>2 DEF NoVariant
    <3>2. CASE assets[Owner[s]] # 0
      <4>1. variants' = [variants EXCEPT ![s] = IF trusted(s)
                                                  THEN BuildSourceSidecarVariant(s, assets[Owner[s]])
                                                  ELSE NoVariant]
        BY <1>8, <3>2 DEF ProcessChangedSidecar
      <4> QED
        BY <4>1 DEF NoVariant, BuildSourceSidecarVariant
    <3> QED
      BY <3>1, <3>2
  <2>3. SUFFICES ASSUME disk' = disk, passedOver' = passedOver, \A p \in Paths : Owed(p)' <=> Owed(p)
                 PROVE  FreshAssets' /\ FreshScan' /\ FreshSidecars'
    BY <2>1, NeverStaleQuiet DEF Incrementally
  <2>4. FreshAssets'
    <3>1. \A b \in Paths : Fresh(assets[b], b) \/ b \in passedOver \/ b \in run.deleted \cup run.changed
      BY <2>1 DEF NeverStale, FreshAssets, Incrementally
    <3> QED
      BY <2>1, <2>3, <3>1, OwnerFacts DEF FreshAssets, Fresh
  <2>5. FreshSidecars'
    <3>1. \A t \in Sidecars : \/ Fresh(variants[t].etag, t) \/ t \in run.deletedSidecars \cup run.changedSidecars
                              \/ Owner[t] \in run.deleted
      BY <2>1 DEF NeverStale, FreshSidecars, Incrementally
    <3> QED
      BY <2>1, <2>2, <2>3, <3>1, OwnerFacts DEF FreshSidecars, Fresh
  <2> QED
    BY <2>1, <2>4, <2>5 DEF FreshScan, Reconciling
<1>9. CASE IncrementalDone
  <2>1. /\ quietly /\ run.pc = "apply" /\ run'.pc = "publish" /\ run.deleted = {} /\ run.changed = {}
        /\ run.deletedSidecars = {} /\ run.changedSidecars = {} /\ assets' = assets /\ variants' = variants
    BY <1>9 DEF IncrementalDone, deletesDone, to, catalogKept
  <2>2. SUFFICES ASSUME disk' = disk, passedOver' = passedOver, \A p \in Paths : Owed(p)' <=> Owed(p)
                 PROVE  FreshAssets' /\ FreshScan' /\ FreshSidecars'
    BY <2>1, NeverStaleQuiet DEF Incrementally
  <2>3. FreshAssets' /\ FreshSidecars'
    BY <2>1, <2>2, OwnerFacts DEF NeverStale, FreshAssets, FreshSidecars, Fresh, Incrementally
  <2> QED
    BY <2>1, <2>3 DEF FreshScan, Reconciling
<1> QED
  BY <1>1, <1>2, <1>3, <1>4, <1>5, <1>6, <1>7, <1>8, <1>9 DEF SyncIncrementally

(***************************************************************************)
(* NeverStaleFull: what a full run collects is fresh when it is read, and  *)
(* an edit after that is owed.                                             *)
(***************************************************************************)
LEMMA NeverStaleFull ==
    ASSUME Types, Matching, NeverStale, SyncFull
    PROVE  NeverStale'
<1> USE DEF Types, RunType, Points, cat
<1>1. ASSUME NEW p \in Paths, WalkFile(p) PROVE NeverStale'
  <2> DEFINE new == [run.files EXCEPT ![p] = disk[p]]
  <2>1. run' = [run EXCEPT !.files = new, !.work = @ \ {p}] /\ run.pc = "walk" /\ quietly
    BY <1>1 DEF WalkFile
  <2>2. \A q \in Paths : new[q] = IF q = p THEN disk[p] ELSE run.files[q]
    OBVIOUS
  <2> HIDE DEF new
  <2>3. run'.pc = "walk" /\ run'.files = new /\ run'.work = run.work \ {p}
    BY <2>1
  <2>4. SUFFICES ASSUME disk' = disk, passedOver' = passedOver, \A q \in Paths : Owed(q)' <=> Owed(q)
                 PROVE  FreshAssets' /\ FreshScan' /\ FreshSidecars'
    BY <2>1, <2>3, NeverStaleQuiet DEF Incrementally
  <2>5. \A q \in Paths \ run.work : run.files[q] \in {0, disk[q]} \/ Owed(q)
    BY <2>1 DEF NeverStale, FreshScan, Fresh
  <2>6. FreshScan'
    BY <2>2, <2>3, <2>4, <2>5 DEF FreshScan, Fresh, Reconciling
  <2> QED
    BY <2>3, <2>6 DEF FreshAssets, FreshSidecars, Incrementally
<1>2. CASE WalkDone
  <2>1. /\ run'.pc = "buildAssets" /\ run'.scanned = run.scanned /\ run'.files = run.files
        /\ run.pc = "walk" /\ run.work = {} /\ quietly
    BY <1>2 DEF WalkDone
  <2>2. SUFFICES ASSUME disk' = disk, passedOver' = passedOver, \A q \in Paths : Owed(q)' <=> Owed(q)
                 PROVE  FreshAssets' /\ FreshScan' /\ FreshSidecars'
    BY <2>1, NeverStaleQuiet DEF Incrementally
  <2>3. \A q \in Paths : run.files[q] \in {0, disk[q]} \/ Owed(q)
    BY <2>1 DEF NeverStale, FreshScan, Fresh
  <2>4. \A q \in Paths : run.scanned[q] = 0
    BY <2>1 DEF Matching, ScanMatches
  <2>5. FreshScan'
    BY <2>1, <2>2, <2>3, <2>4 DEF FreshScan, Fresh, Reconciling
  <2> QED
    BY <2>1, <2>5 DEF FreshAssets, FreshSidecars, Incrementally
<1>3. ASSUME NEW p \in Paths, VanishedFile(p) PROVE NeverStale'
  BY <1>3, NeverStaleAbort DEF VanishedFile
<1>4. ASSUME NEW p \in Paths, BuildAsset(p) PROVE NeverStale'
  <2> DEFINE v == IF canReuseAsset(p) THEN assets[p] ELSE disk[p]
  <2> DEFINE new == [run.scanned EXCEPT ![p] = v]
  <2>1. run' = [run EXCEPT !.scanned = new, !.work = @ \ {p}] /\ run.pc = "buildAssets" /\ quietly
    BY <1>4 DEF BuildAsset
  <2>2. \A q \in Paths : new[q] = IF q = p THEN v ELSE run.scanned[q]
    OBVIOUS
  <2>3. v \in {run.files[p], disk[p]}
    BY DEF canReuseAsset
  <2> HIDE DEF new, v
  <2>4. run'.pc = "buildAssets" /\ run'.scanned = new /\ run'.files = run.files
    BY <2>1
  <2>5. SUFFICES ASSUME disk' = disk, passedOver' = passedOver, \A q \in Paths : Owed(q)' <=> Owed(q)
                 PROVE  FreshAssets' /\ FreshScan' /\ FreshSidecars'
    BY <2>1, <2>4, NeverStaleQuiet DEF Incrementally
  <2>6. \A q \in Paths : /\ run.files[q] \in {0, disk[q]} \/ Owed(q)
                         /\ run.scanned[q] \in {0, disk[q]} \/ Owed(q)
    BY <2>1 DEF NeverStale, FreshScan, Fresh
  <2>7. FreshScan'
    BY <2>2, <2>3, <2>4, <2>5, <2>6 DEF FreshScan, Fresh, Reconciling
  <2> QED
    BY <2>4, <2>7 DEF FreshAssets, FreshSidecars, Incrementally
<1>5. CASE AssetsBuilt
  <2>1. /\ run'.pc = "buildSidecars" /\ run'.scanned = run.scanned /\ run'.sidecars = run.sidecars
        /\ run'.files = run.files /\ run.pc = "buildAssets" /\ quietly
    BY <1>5 DEF AssetsBuilt
  <2>2. SUFFICES ASSUME disk' = disk, passedOver' = passedOver, \A q \in Paths : Owed(q)' <=> Owed(q)
                 PROVE  FreshAssets' /\ FreshScan' /\ FreshSidecars'
    BY <2>1, NeverStaleQuiet DEF Incrementally
  <2>3. \A q \in Paths : /\ run.files[q] \in {0, disk[q]} \/ Owed(q)
                         /\ run.scanned[q] \in {0, disk[q]} \/ Owed(q)
    BY <2>1 DEF NeverStale, FreshScan, Fresh
  <2>4. \A s \in Sidecars : run.sidecars[s].etag = 0
    BY <2>1 DEF Matching, ScanMatches, NoVariant
  <2>5. FreshScan'
    BY <2>1, <2>2, <2>3, <2>4 DEF FreshScan, Fresh, Reconciling
  <2> QED
    BY <2>1, <2>5 DEF FreshAssets, FreshSidecars, Incrementally
<1>6. ASSUME NEW s \in Sidecars, BuildSidecar(s) PROVE NeverStale'
  <2> DEFINE new == [run.sidecars EXCEPT ![s] = scannedSidecar(s)]
  <2>1. run' = [run EXCEPT !.sidecars = new, !.work = @ \ {s}] /\ run.pc = "buildSidecars" /\ quietly
    BY <1>6 DEF BuildSidecar
  <2>2. \A t \in Sidecars : new[t] = IF t = s THEN scannedSidecar(s) ELSE run.sidecars[t]
    OBVIOUS
  <2>3. scannedSidecar(s).etag \in {0, run.files[s], disk[s]}
    BY DEF scannedSidecar, BuildSourceSidecarVariant, NoVariant
  <2> HIDE DEF new
  <2>4. /\ run'.pc = "buildSidecars" /\ run'.scanned = run.scanned /\ run'.sidecars = new
        /\ run'.files = run.files
    BY <2>1
  <2>5. SUFFICES ASSUME disk' = disk, passedOver' = passedOver, \A q \in Paths : Owed(q)' <=> Owed(q)
                 PROVE  FreshAssets' /\ FreshScan' /\ FreshSidecars'
    BY <2>1, <2>4, NeverStaleQuiet DEF Incrementally
  <2>6. /\ \A q \in Paths : /\ run.files[q] \in {0, disk[q]} \/ Owed(q)
                            /\ run.scanned[q] \in {0, disk[q]} \/ Owed(q)
        /\ \A t \in Sidecars : run.sidecars[t].etag \in {0, disk[t]} \/ Owed(t)
    BY <2>1 DEF NeverStale, FreshScan, Fresh
  <2>7. \A t \in Sidecars : new[t].etag \in {0, disk[t]} \/ Owed(t)
    BY <2>2, <2>3, <2>6, OwnerFacts
  <2>8. FreshScan'
    BY <2>4, <2>5, <2>6, <2>7, OwnerFacts DEF FreshScan, Fresh, Reconciling
  <2> QED
    BY <2>4, <2>8 DEF FreshAssets, FreshSidecars, Incrementally
<1>7. CASE SidecarsBuilt
  <2>1. /\ run'.pc = "reconcile" /\ run'.scanned = run.scanned /\ run'.sidecars = run.sidecars
        /\ run'.work = {p \in Paths : run.scanned[p] # 0}
        /\ run'.deleted = {p \in Paths : assets[p] # 0 /\ run.scanned[p] = 0}
        /\ run.pc = "buildSidecars" /\ quietly /\ assets' = assets
    BY <1>7 DEF SidecarsBuilt, catalogKept
  <2>2. SUFFICES ASSUME disk' = disk, passedOver' = passedOver, \A q \in Paths : Owed(q)' <=> Owed(q)
                 PROVE  FreshAssets' /\ FreshScan' /\ FreshSidecars'
    BY <2>1, NeverStaleQuiet DEF Incrementally
  <2>3. FreshAssets'
    BY <2>1, OwnerFacts DEF FreshAssets, Fresh, Incrementally
  <2>4. FreshScan'
    BY <2>1, <2>2, OwnerFacts DEF NeverStale, FreshScan, Fresh, Reconciling
  <2> QED
    BY <2>1, <2>3, <2>4 DEF FreshSidecars, Incrementally
<1>8. ASSUME NEW p \in Paths, SyncScannedAsset(p) PROVE NeverStale'
  <2>1. /\ run' = [run EXCEPT !.pc = "store", !.cur = <<p, run.scanned[p]>>, !.work = @ \ {p}]
        /\ run.pc = "reconcile" /\ quietly /\ assets' = assets
    BY <1>8 DEF SyncScannedAsset
  <2>2. /\ run'.pc = "store" /\ run'.scanned = run.scanned /\ run'.sidecars = run.sidecars
        /\ run'.deleted = run.deleted /\ run'.work = run.work \ {p} /\ run'.cur[1] = p
    BY <2>1
  <2>3. SUFFICES ASSUME disk' = disk, passedOver' = passedOver, \A q \in Paths : Owed(q)' <=> Owed(q)
                 PROVE  FreshAssets' /\ FreshScan' /\ FreshSidecars'
    BY <2>1, <2>2, NeverStaleQuiet DEF Incrementally
  <2>4. FreshAssets'
    BY <2>1, <2>2, <2>3, OwnerFacts DEF NeverStale, FreshAssets, Fresh, Incrementally
  <2>5. FreshScan'
    BY <2>1, <2>2, <2>3, OwnerFacts DEF NeverStale, FreshScan, Fresh, Reconciling
  <2> QED
    BY <2>2, <2>4, <2>5 DEF FreshSidecars, Incrementally
<1>9. CASE StoreScannedAsset
  <2>1. /\ run'.pc = "reconcile" /\ run.pc = "store" /\ run'.scanned = run.scanned
        /\ run'.sidecars = run.sidecars /\ run'.deleted = run.deleted /\ run'.work = run.work /\ quietly
    BY <1>9 DEF StoreScannedAsset
  <2>2. run.cur \in Paths \X Nat /\ run.cur[2] = run.scanned[run.cur[1]]
    BY <2>1 DEF Matching, ReconcileMatches
  <2>3. \A q \in Paths : assets'[q] = IF q = run.cur[1] THEN run.scanned[q] ELSE assets[q]
    BY <1>9, <2>2 DEF StoreScannedAsset
  <2>4. SUFFICES ASSUME disk' = disk, passedOver' = passedOver, \A q \in Paths : Owed(q)' <=> Owed(q)
                 PROVE  FreshAssets' /\ FreshScan' /\ FreshSidecars'
    BY <2>1, NeverStaleQuiet DEF Incrementally
  <2>5. FreshScan'
    BY <2>1, <2>4, OwnerFacts DEF NeverStale, FreshScan, Fresh, Reconciling
  <2>6. FreshAssets'
    <3>1. \A q \in Paths : run.scanned[q] \in {0, disk[q]} \/ Owed(q)
      BY <2>1 DEF NeverStale, FreshScan, Fresh, Reconciling
    <3>2. \A a \in Paths : \/ assets[a] \in {0, disk[a]} \/ Owed(a) \/ a \in run.deleted
                            \/ a \in passedOver \/ a \in run.work \/ a = run.cur[1]
      BY <2>1 DEF NeverStale, FreshAssets, Fresh
    <3>3. \A a \in Paths : \/ assets'[a] \in {0, disk'[a]} \/ Owed(a)' \/ a \in run'.deleted
                            \/ a \in passedOver' \/ a \in run'.work
      BY <2>1, <2>3, <2>4, <3>1, <3>2, OwnerFacts
    <3> QED
      BY <2>1, <3>3 DEF FreshAssets, Fresh, Incrementally
  <2> QED
    BY <2>1, <2>5, <2>6 DEF FreshSidecars, Incrementally
<1>10. CASE AssetsReconciled
  <2>1. /\ run'.pc = "removed" /\ run.pc = "reconcile" /\ run'.scanned = run.scanned /\ run.work = {}
        /\ run'.sidecars = run.sidecars /\ run'.deleted = run.deleted /\ quietly /\ assets' = assets
    BY <1>10 DEF AssetsReconciled, to, catalogKept
  <2>2. SUFFICES ASSUME disk' = disk, passedOver' = passedOver, \A q \in Paths : Owed(q)' <=> Owed(q)
                 PROVE  FreshAssets' /\ FreshScan' /\ FreshSidecars'
    BY <2>1, NeverStaleQuiet DEF Incrementally
  <2>3. FreshAssets'
    BY <2>1, <2>2, OwnerFacts DEF NeverStale, FreshAssets, Fresh, Incrementally
  <2>4. FreshScan'
    BY <2>1, <2>2, OwnerFacts DEF NeverStale, FreshScan, Fresh, Reconciling
  <2> QED
    BY <2>1, <2>3, <2>4 DEF FreshSidecars, Incrementally
<1>11. ASSUME NEW p \in Paths, ReconcileRemovedAsset(p) PROVE NeverStale'
  <2>1. /\ run'.pc = "removed" /\ run.pc = "removed" /\ run'.scanned = run.scanned
        /\ run'.sidecars = run.sidecars /\ run'.deleted = run.deleted \ {p} /\ quietly
    BY <1>11 DEF ReconcileRemovedAsset
  <2>2. \A q \in Paths : assets'[q] = IF q = p THEN 0 ELSE assets[q]
    BY <1>11 DEF ReconcileRemovedAsset
  <2>3. SUFFICES ASSUME disk' = disk, passedOver' = passedOver, \A q \in Paths : Owed(q)' <=> Owed(q)
                 PROVE  FreshAssets' /\ FreshScan' /\ FreshSidecars'
    BY <2>1, NeverStaleQuiet DEF Incrementally
  <2>4. FreshAssets'
    BY <2>1, <2>2, <2>3, OwnerFacts DEF NeverStale, FreshAssets, Fresh, Incrementally
  <2>5. FreshScan'
    BY <2>1, <2>3, OwnerFacts DEF NeverStale, FreshScan, Fresh, Reconciling
  <2> QED
    BY <2>1, <2>4, <2>5 DEF FreshSidecars, Incrementally
<1>12. CASE RemovedReconciled
  <2>1. /\ run'.pc = "sidecarUpserts" /\ run.pc = "removed" /\ run.deleted = {} /\ quietly
        /\ run'.scanned = run.scanned /\ run'.sidecars = run.sidecars
        /\ run'.work = {s \in Sidecars : run.sidecars[s] # NoVariant}
        /\ run'.deletedSidecars = {s \in Sidecars : variants[s] # NoVariant /\ run.sidecars[s] = NoVariant}
        /\ assets' = assets /\ variants' = variants
    BY <1>12 DEF RemovedReconciled, catalogKept
  <2>2. SUFFICES ASSUME disk' = disk, passedOver' = passedOver, \A q \in Paths : Owed(q)' <=> Owed(q)
                 PROVE  FreshAssets' /\ FreshScan' /\ FreshSidecars'
    BY <2>1, NeverStaleQuiet DEF Incrementally
  <2>3. FreshAssets'
    BY <2>1, <2>2, OwnerFacts DEF NeverStale, FreshAssets, Fresh, Incrementally
  <2>4. FreshScan'
    BY <2>1, <2>2, OwnerFacts DEF NeverStale, FreshScan, Fresh, Reconciling
  <2>5. FreshSidecars'
    <3>1. NoVariant.etag = 0
      BY DEF NoVariant
    <3> QED
      BY <2>1, <3>1 DEF FreshSidecars, Fresh, Incrementally
  <2> QED
    BY <2>3, <2>4, <2>5
<1>13. ASSUME NEW s \in Sidecars, UpsertScannedSidecar(s) \/ DeleteStaleSidecar(s) PROVE NeverStale'
  <2>1. /\ run'.pc = "sidecarUpserts" /\ run.pc = "sidecarUpserts" /\ quietly
        /\ run'.scanned = run.scanned /\ run'.sidecars = run.sidecars /\ assets' = assets
    BY <1>13 DEF UpsertScannedSidecar, DeleteStaleSidecar
  <2>2. run'.work \cup run'.deletedSidecars \cup {s} = run.work \cup run.deletedSidecars \cup {s}
    <3>1. \/ run'.work = run.work \ {s} /\ run'.deletedSidecars = run.deletedSidecars
          \/ run'.work = run.work /\ run'.deletedSidecars = run.deletedSidecars \ {s}
      BY <1>13 DEF UpsertScannedSidecar, DeleteStaleSidecar
    <3> QED
      BY <3>1
  <2>3. /\ \A t \in Sidecars : t # s => variants'[t] = variants[t]
        /\ variants'[s].etag \in {0, run.sidecars[s].etag}
    BY <1>13 DEF UpsertScannedSidecar, DeleteStaleSidecar, NoVariant
  <2>4. SUFFICES ASSUME disk' = disk, passedOver' = passedOver, \A q \in Paths : Owed(q)' <=> Owed(q)
                 PROVE  FreshAssets' /\ FreshScan' /\ FreshSidecars'
    BY <2>1, NeverStaleQuiet DEF Incrementally
  <2>5. FreshAssets'
    BY <2>1, <2>4, OwnerFacts DEF NeverStale, FreshAssets, Fresh, Incrementally
  <2>6. FreshScan'
    BY <2>1, <2>4, OwnerFacts DEF NeverStale, FreshScan, Fresh, Reconciling
  <2>7. ASSUME NEW t \in Sidecars
        PROVE  variants'[t].etag \in {0, disk'[t]} \/ Owed(t)' \/ t \in run'.work \cup run'.deletedSidecars
    <3>1. CASE t = s
      <4>1. run.sidecars[s].etag \in {0, disk[s]} \/ Owed(s)
        BY <2>1 DEF NeverStale, FreshScan, Fresh, Reconciling
      <4> QED
        BY <2>3, <2>4, <3>1, <4>1, OwnerFacts
    <3>2. CASE t # s
      <4>1. variants[t].etag \in {0, disk[t]} \/ Owed(t) \/ t \in run.work \cup run.deletedSidecars
        BY <2>1 DEF NeverStale, FreshSidecars, Fresh
      <4>2. t \in run.work \cup run.deletedSidecars => t \in run'.work \cup run'.deletedSidecars
        BY <2>2, <3>2, Zenon
      <4> QED
        BY <2>3, <2>4, <3>2, <4>1, <4>2, OwnerFacts
    <3> QED
      BY <3>1, <3>2
  <2>8. FreshSidecars'
    BY <2>1, <2>7 DEF FreshSidecars, Fresh, Incrementally
  <2> QED
    BY <2>5, <2>6, <2>8
<1>14. CASE FullDone
  <2>1. /\ run'.pc = "publish" /\ run.pc = "sidecarUpserts" /\ run.work = {} /\ run.deletedSidecars = {}
        /\ quietly /\ assets' = assets /\ variants' = variants
    BY <1>14 DEF FullDone, to, catalogKept
  <2>2. SUFFICES ASSUME disk' = disk, passedOver' = passedOver, \A q \in Paths : Owed(q)' <=> Owed(q)
                 PROVE  FreshAssets' /\ FreshScan' /\ FreshSidecars'
    BY <2>1, NeverStaleQuiet DEF Incrementally
  <2>3. FreshAssets' /\ FreshSidecars'
    BY <2>1, <2>2, OwnerFacts DEF NeverStale, FreshAssets, FreshSidecars, Fresh, Incrementally
  <2> QED
    BY <2>1, <2>3 DEF FreshScan, Reconciling
<1> QED
  BY <1>1, <1>2, <1>3, <1>4, <1>5, <1>6, <1>7, <1>8, <1>9, <1>10, <1>11, <1>12, <1>13, <1>14 DEF SyncFull

(***************************************************************************)
(* NeverStaleInit: the catalog begins as the scan of the files.            *)
(***************************************************************************)
LEMMA NeverStaleInit == Init => NeverStale
<1> SUFFICES ASSUME Init PROVE NeverStale
  OBVIOUS
<1>1. run.pc = "idle" /\ rescanMu = "free" /\ changes = <<>>
  BY DEF Init, idleRun
<1>2. \A a \in Paths : assets[a] \in {0, disk[a]}
  <2>1. assets = [p \in Paths |-> IF isSidecar(disk, p) THEN 0 ELSE disk[p]]
    BY ScanFacts DEF Init
  <2> QED
    BY <2>1, OwnerFacts
<1>3. \A s \in Sidecars : variants[s].etag \in {0, disk[s]}
  <2>1. variants = [s \in Sidecars |->
                     IF isSidecar(disk, s) /\ disk[s] \notin BadVersions
                       THEN [etag |-> disk[s], source |-> disk[Owner[s]]] ELSE NoVariant]
    BY ScanFacts DEF Init
  <2> QED
    BY <2>1 DEF NoVariant
<1>4. Holder
  BY <1>1 DEF Holder, Incrementally
<1> QED
  BY <1>1, <1>2, <1>3, <1>4
     DEF NeverStale, FreshAssets, FreshSidecars, FreshScan, Fresh, Incrementally, Reconciling

(***************************************************************************)
(* NeverStaleStep: every step keeps NeverStale.                            *)
(***************************************************************************)
LEMMA NeverStaleStep == Types /\ Matching /\ NeverStale /\ [Next]_vars => NeverStale'
<1> SUFFICES ASSUME Types, Matching, NeverStale, [Next]_vars PROVE NeverStale'
  OBVIOUS
<1>1. CASE UNCHANGED vars
  <2>1. UNCHANGED <<disk, notify, changes, pending, batch, rescanMu, run, lost, assets, variants, passedOver>>
    BY <1>1 DEF vars, source, watch, cat
  <2>2. OwedKept
    BY <2>1 DEF OwedKept, Owed, CoveredBy, Covers, Waiting
  <2>3. Holder'
    BY <2>1 DEF NeverStale, Holder
  <2> QED
    BY <2>1, <2>2, <2>3, NeverStaleKept DEF cat
<1>2. CASE SyncIncrementally
  BY <1>2, NeverStaleBuild, NeverStaleApply
<1> QED
  BY <1>1, <1>2, NeverStaleOutside, NeverStaleFull DEF Next, RunSteps

(***************************************************************************)
(* WatchedStaysFresh: once every event has been taken through and none was *)
(* lost, no asset and no sidecar variant is older than its file, for any   *)
(* number of files and edits, except for an asset with a sidecar's name    *)
(* that an incremental run has passed over.                                *)
(***************************************************************************)
THEOREM WatchedStaysFresh == Spec => []WatchedIsNeverStale
<1> DEFINE Inv == Types /\ Matching /\ NeverStale
<1>1. Init => Inv
  BY TypesInit, MatchingInit, NeverStaleInit
<1>2. Inv /\ [Next]_vars => Inv'
  BY TypesStep, MatchingStep, NeverStaleStep
<1>3. Inv => WatchedIsNeverStale
  <2>1. SUFFICES ASSUME Inv, settled
                 PROVE  /\ \A a \in Paths : assets[a] \in {0, disk[a]} \/ a \in passedOver
                        /\ \A s \in Sidecars : variants[s].etag \in {0, disk[s]}
    BY DEF WatchedIsNeverStale
  <2>2. run.pc = "idle"
    BY <2>1 DEF settled, NeverStale, Holder
  <2>3. \A p : ~Owed(p)
    BY <2>1 DEF settled, Owed, CoveredBy, Waiting
  <2> QED
    BY <2>1, <2>2, <2>3 DEF NeverStale, FreshAssets, FreshSidecars, Fresh
<1> QED
  BY <1>1, <1>2, <1>3, PTL DEF Spec
=============================================================================
