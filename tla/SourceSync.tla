----------------------------- MODULE SourceSync -----------------------------
(***************************************************************************)
(* internal/task/source_rescan*.go with internal/source/localfs_watch.go   *)
(* and internal/sourcecatalog: how the catalog follows the files on disk.  *)
(*                                                                         *)
(* fsnotify events pass through a channel of capacity one that degrades to *)
(* "full rescan" on overflow.  The watcher goroutine collects them, waits  *)
(* for a quiet moment and runs an incremental sync; a scheduled job runs a *)
(* full one.  rescanMu serialises the two, but nothing stops the files     *)
(* from changing while a run reads them.                                   *)
(*                                                                         *)
(* Every edit gives a file a new version, which stands for its content and *)
(* its modification time; 0 is "no file".                                  *)
(***************************************************************************)
EXTENDS Naturals, Sequences, FiniteSets

CONSTANTS
    Assets,        \* paths that no sidecar suffix matches
    Sidecars,      \* paths that one matches, such as app.js.gz
    Owner,         \* Owner[s]: the path of s without the suffix
    MaxEdits,      \* bound: versions; the source tree is edited MaxEdits - 1 times
    BadVersions,   \* versions that are not a valid payload of a sidecar's encoding
    MaxMissed,     \* bound: edits whose event the watcher never gets
    MaxFailures    \* bound: runs ended by a read error

ASSUME OwnerAssumption == Owner \in [Sidecars -> Assets] /\ Assets \cap Sidecars = {}
ASSUME BoundsAssumption ==
    MaxEdits \in Nat \ {0} /\ MaxMissed \in Nat /\ MaxFailures \in Nat /\ BadVersions \subseteq 1..MaxEdits

Paths == Assets \cup Sidecars
Versions == 0..MaxEdits
NoVariant == [etag |-> 0, source |-> 0]

VARIABLES
    disk,       \* version of each file
    edits,      \* the newest version
    missed,     \* events lost before the watcher
    notify,     \* fsnotify's queue of events
    changes,    \* the channel Watch returns, capacity 1
    pending,    \* the watcher's pending changes
    batch,      \* changes of the run the watcher waits for or executes
    rescanMu,   \* "free", "watcher" or "scheduler"
    run,        \* the sourceRescanRun of the holder of rescanMu
    failures,   \* runs that failed
    assets,     \* catalog: version of the asset at each path, 0 if none
    variants,   \* catalog: the source-sidecar variants, by sidecar path
    silent,     \* the catalog has changed since the last CatalogChanged event
    clean,      \* no edit since the current run began to walk the source
    lost,       \* an event was missed or a run has failed since the last walk
    passedOver  \* history: assets with a sidecar's name whose changes no run since
                \* the last walk has applied

source == <<disk, edits, missed>>
watch == <<notify, changes, pending, batch>>
cat == <<assets, variants>>
vars == <<source, watch, rescanMu, run, failures, cat, silent, clean, lost, passedOver>>

(***************************************************************************)
(* source.ChangeEvent and sourceRescanRun.  work is what the current loop  *)
(* still has to visit; cur the asset between DeleteVariants and the upsert *)
(* of its sidecars.                                                        *)
(***************************************************************************)
Change(p, op) == [path |-> p, op |-> op]
FullRescan == [path |-> {}, op |-> "overflow"]
nothing == [p \in Paths |-> 0]
idleRun ==
    [pc |-> "idle", full |-> FALSE, work |-> {}, cur |-> <<>>,
     deleted |-> {}, changed |-> {}, deletedSidecars |-> {}, changedSidecars |-> {},
     files |-> nothing, scanned |-> nothing, sidecars |-> [s \in Sidecars |-> NoVariant]]

ScanPoints == {"walk", "buildAssets", "buildSidecars"}

(***************************************************************************)
(* recognizeSidecars: a file with a sidecar's name is one only if the file *)
(* it belongs to was found as well; otherwise it is an asset.              *)
(***************************************************************************)
isSidecar(files, p) == p \in Sidecars /\ files[p] # 0 /\ files[Owner[p]] # 0
assetFiles(files) == {p \in Paths : files[p] # 0 /\ ~isSidecar(files, p)}

(***************************************************************************)
(* What a scan of a file tree that holds still means.                      *)
(***************************************************************************)
ScanOf(files) ==
    <<[p \in Paths |-> IF isSidecar(files, p) THEN 0 ELSE files[p]],
      [s \in Sidecars |->
         IF isSidecar(files, s) /\ files[s] \notin BadVersions
           THEN [etag |-> files[s], source |-> files[Owner[s]]]
           ELSE NoVariant]>>

(***************************************************************************)
(* The bootstrap hook has loaded the scan of the files that were there,    *)
(* and their versions are 1.                                               *)
(***************************************************************************)
Init ==
    /\ disk \in [Paths -> {0, 1}]
    /\ assets = ScanOf(disk)[1] /\ variants = ScanOf(disk)[2]
    /\ edits = 1 /\ missed = 0
    /\ notify = <<>> /\ changes = <<>> /\ pending = <<>> /\ batch = <<>>
    /\ rescanMu = "free" /\ run = idleRun /\ failures = 0
    /\ silent = FALSE /\ clean = TRUE /\ lost = FALSE /\ passedOver = {}

-----------------------------------------------------------------------------
(* The source tree and its watcher *)

(***************************************************************************)
(* One edit, with the fsnotify events it causes.  The events are missed    *)
(* when the kernel queue overflows or the file lies in a new directory     *)
(* that addCreatedWatchDir has not added yet.                              *)
(***************************************************************************)
Edit(newDisk, events) ==
    /\ edits < MaxEdits
    /\ edits' = edits + 1
    /\ disk' = newDisk
    /\ clean' = FALSE
    /\ \/ notify' = notify \o events /\ UNCHANGED <<missed, lost>>
       \/ missed < MaxMissed /\ missed' = missed + 1 /\ lost' = TRUE /\ UNCHANGED notify
    /\ UNCHANGED <<changes, pending, batch, rescanMu, run, failures, cat, silent, passedOver>>

WriteFile(p) == Edit([disk EXCEPT ![p] = edits + 1], <<Change(p, "WRITE")>>)
RemoveFile(p) == disk[p] # 0 /\ Edit([disk EXCEPT ![p] = 0], <<Change(p, "REMOVE")>>)
RenameFile(p, q) ==
    /\ p # q /\ disk[p] # 0
    /\ Edit([disk EXCEPT ![p] = 0, ![q] = edits + 1], <<Change(p, "RENAME"), Change(q, "CREATE")>>)

\* Mutation: the newest change replaces the one in the channel.
emitNewest(c) == <<c>>

(***************************************************************************)
(* watchLoop and emitWatchChange: a full channel is emptied and given a    *)
(* FullRescan instead; this goroutine is its only sender.                  *)
(***************************************************************************)
emitWatchChange(c) == IF changes = <<>> THEN <<c>> ELSE <<FullRescan>>

WatchEvent ==
    /\ notify # <<>>
    /\ notify' = Tail(notify)
    /\ changes' = emitWatchChange(Head(notify))
    /\ UNCHANGED <<source, pending, batch, rescanMu, run, failures, cat, silent, clean, lost, passedOver>>

(***************************************************************************)
(* watchSourceChanges: while it waits for or executes a run it receives    *)
(* nothing.  The debounce timer is armed when something is pending and may *)
(* fire at any time after.                                                 *)
(***************************************************************************)
RecordPending ==
    /\ batch = <<>> /\ changes # <<>>
    /\ pending' = Append(pending, Head(changes))
    /\ changes' = <<>>
    /\ UNCHANGED <<source, notify, batch, rescanMu, run, failures, cat, silent, clean, lost, passedOver>>

FlushPending ==
    /\ batch = <<>> /\ pending # <<>>
    /\ batch' = pending
    /\ pending' = <<>>
    /\ UNCHANGED <<source, notify, changes, rescanMu, run, failures, cat, silent, clean, lost, passedOver>>

-----------------------------------------------------------------------------
(* runSourceRescan *)

StartIncremental ==
    /\ rescanMu = "free" /\ batch # <<>>
    /\ rescanMu' = "watcher"
    /\ run' = [idleRun EXCEPT !.pc = "build"]
    /\ UNCHANGED <<source, watch, failures, cat, silent, clean, lost, passedOver>>

beginWalk ==
    /\ run' = [idleRun EXCEPT !.pc = "walk", !.full = TRUE, !.work = Paths]
    /\ clean' = TRUE
    /\ lost' = FALSE
    /\ passedOver' = {}

StartScheduled ==
    /\ rescanMu = "free"
    /\ rescanMu' = "scheduler"
    /\ beginWalk
    /\ UNCHANGED <<source, watch, failures, cat, silent>>

(***************************************************************************)
(* The end of a run: the watcher's batch is gone either way, and only a    *)
(* successful run publishes CatalogChanged.                                *)
(***************************************************************************)
endRun ==
    /\ rescanMu' = "free"
    /\ run' = idleRun
    /\ batch' = IF rescanMu = "watcher" THEN <<>> ELSE batch

\* Mutation: the run ends without CatalogChanged.
EndSilently ==
    /\ run.pc = "publish"
    /\ endRun
    /\ UNCHANGED <<source, notify, changes, pending, failures, cat, silent, clean, lost, passedOver>>

Publish ==
    /\ run.pc = "publish"
    /\ endRun
    /\ silent' = FALSE
    /\ UNCHANGED <<source, notify, changes, pending, failures, cat, clean, lost, passedOver>>

abort ==
    /\ endRun
    /\ lost' = TRUE
    /\ UNCHANGED <<source, notify, changes, pending, cat, silent, clean, passedOver>>

(***************************************************************************)
(* Any step that reads the source may fail.                                *)
(***************************************************************************)
ReadError ==
    /\ run.pc \in {"build", "apply", "sidecars"} \cup ScanPoints
    /\ failures < MaxFailures
    /\ failures' = failures + 1
    /\ abort

to(pc) == [run EXCEPT !.pc = pc]
recording == UNCHANGED <<source, watch, rescanMu, failures, clean, lost>>
quietly == recording /\ UNCHANGED passedOver
catalogKept == UNCHANGED <<cat, silent>>

-----------------------------------------------------------------------------
(* syncIncrementally *)

(***************************************************************************)
(* buildIncrementalChangeSet, one change at a time: run.work numbers the   *)
(* changes already seen.                                                   *)
(***************************************************************************)
recordAssetDelete(p) ==
    IF p \in Sidecars
      THEN [run EXCEPT !.deletedSidecars = @ \cup {p}]
      ELSE [run EXCEPT !.deleted = @ \cup {p}, !.changed = @ \ {p}]

recordAssetWrite(p) ==
    IF disk[p] = 0 THEN run
    ELSE IF p \in Sidecars
      THEN [run EXCEPT !.changedSidecars = @ \cup {p}]
      ELSE [run EXCEPT !.changed = @ \cup {p}]

seen == Cardinality(run.work)
change == batch[seen + 1]
building == run.pc = "build" /\ seen < Len(batch)

(***************************************************************************)
(* The path alone decides what a change is about, so one of a file with a  *)
(* sidecar's name is never taken for one of the asset that the catalog may *)
(* list at that path.                                                      *)
(***************************************************************************)
passOver(p) ==
    passedOver' = passedOver \cup {s \in Sidecars : s = p /\ assets[s] # 0}

RecordWrite ==
    /\ building /\ change.op \in {"WRITE", "CREATE"}
    /\ run' = [recordAssetWrite(change.path) EXCEPT !.work = @ \cup {seen + 1}]
    /\ passOver(change.path)
    /\ catalogKept /\ recording

RecordDelete ==
    /\ building /\ change.op = "REMOVE"
    /\ run' = [recordAssetDelete(change.path) EXCEPT !.work = @ \cup {seen + 1}]
    /\ passOver(change.path)
    /\ catalogKept /\ recording

(***************************************************************************)
(* errFullSourceRescanRequired: the run starts again as a full one.        *)
(***************************************************************************)
FallBackToFull ==
    /\ building /\ change.op \in {"RENAME", "overflow"}
    /\ beginWalk
    /\ UNCHANGED <<source, watch, rescanMu, failures>> /\ catalogKept

(***************************************************************************)
(* normalizeIncrementalTargets: a deleted path is not a changed one, and   *)
(* sidecars of deleted assets are forgotten.                               *)
(***************************************************************************)
normalizeIncrementalTargets(r) ==
    [r EXCEPT !.changed = @ \ r.deleted,
              !.changedSidecars = {s \in @ : Owner[s] \notin r.deleted}]

NormalizeTargets ==
    /\ run.pc = "build" /\ seen = Len(batch)
    /\ run' = [normalizeIncrementalTargets(run) EXCEPT !.pc = "apply", !.work = {}]
    /\ catalogKept /\ quietly

\* Mutation: the variants of a changed or deleted asset are kept.
keepVariantsOf(a) == variants

(***************************************************************************)
(* Catalog.DeleteVariants, seen from the sidecar variants.                 *)
(***************************************************************************)
withoutVariantsOf(a) ==
    [s \in Sidecars |-> IF Owner[s] = a THEN NoVariant ELSE variants[s]]
announceLater == silent' = (silent \/ cat' # cat)

ProcessDeletedAsset(a) ==
    /\ run.pc = "apply" /\ a \in run.deleted
    /\ assets' = [assets EXCEPT ![a] = 0]
    /\ variants' = withoutVariantsOf(a)
    /\ run' = [run EXCEPT !.deleted = @ \ {a}]
    /\ announceLater /\ quietly

ProcessDeletedSidecar(s) ==
    /\ run.pc = "apply" /\ run.deleted = {} /\ s \in run.deletedSidecars
    /\ variants' = [variants EXCEPT ![s] = NoVariant]
    /\ run' = [run EXCEPT !.deletedSidecars = @ \ {s}]
    /\ UNCHANGED assets /\ announceLater /\ quietly

deletesDone == run.deleted = {} /\ run.deletedSidecars = {}

(***************************************************************************)
(* upsertAssetAndSidecars: BuildAsset reads the file, so a file that has   *)
(* vanished ends the run; an asset that did not change is skipped.         *)
(***************************************************************************)
VanishedAsset(a) ==
    /\ run.pc = "apply" /\ deletesDone /\ a \in run.changed
    /\ disk[a] = 0
    /\ abort /\ UNCHANGED failures

ProcessChangedAsset(a) ==
    /\ run.pc = "apply" /\ deletesDone /\ a \in run.changed
    /\ disk[a] # 0
    /\ IF assets[a] = disk[a]
         THEN run' = [run EXCEPT !.changed = @ \ {a}] /\ UNCHANGED variants
         ELSE /\ run' = [run EXCEPT !.pc = "upsert", !.cur = <<a, disk[a]>>, !.changed = @ \ {a}]
              /\ variants' = withoutVariantsOf(a)
    /\ UNCHANGED assets /\ announceLater /\ quietly

UpsertChangedAsset ==
    /\ run.pc = "upsert"
    /\ assets' = [assets EXCEPT ![run.cur[1]] = run.cur[2]]
    /\ run' = [run EXCEPT !.pc = "sidecars", !.work = {s \in Sidecars : Owner[s] = run.cur[1]}]
    /\ UNCHANGED variants /\ announceLater /\ quietly

(***************************************************************************)
(* trustedSourceSidecarPayload looks at the payload that is there now.     *)
(***************************************************************************)
trusted(s) == disk[s] # 0 /\ disk[s] \notin BadVersions
BuildSourceSidecarVariant(s, sourceHash) == [etag |-> disk[s], source |-> sourceHash]

(***************************************************************************)
(* rebuildSourceSidecarsForAsset                                           *)
(***************************************************************************)
RebuildSidecar(s) ==
    /\ run.pc = "sidecars" /\ s \in run.work
    /\ variants' = IF trusted(s)
                     THEN [variants EXCEPT ![s] = BuildSourceSidecarVariant(s, run.cur[2])]
                     ELSE variants
    /\ run' = [run EXCEPT !.work = @ \ {s}]
    /\ UNCHANGED assets /\ announceLater /\ quietly

SidecarsRebuilt ==
    /\ run.pc = "sidecars" /\ run.work = {}
    /\ run' = [run EXCEPT !.pc = "apply", !.cur = <<>>]
    /\ catalogKept /\ quietly

(***************************************************************************)
(* upsertSidecarVariant                                                    *)
(***************************************************************************)
ProcessChangedSidecar(s) ==
    /\ run.pc = "apply" /\ deletesDone /\ run.changed = {} /\ s \in run.changedSidecars
    /\ variants' = IF assets[Owner[s]] = 0 THEN variants
                   ELSE [variants EXCEPT ![s] = IF trusted(s)
                                                  THEN BuildSourceSidecarVariant(s, assets[Owner[s]])
                                                  ELSE NoVariant]
    /\ run' = [run EXCEPT !.changedSidecars = @ \ {s}]
    /\ UNCHANGED assets /\ announceLater /\ quietly

IncrementalDone ==
    /\ run.pc = "apply" /\ deletesDone /\ run.changed = {} /\ run.changedSidecars = {}
    /\ run' = to("publish")
    /\ catalogKept /\ quietly

-----------------------------------------------------------------------------
(* syncFull *)

(***************************************************************************)
(* collectSourceFiles: Walk visits the files one after the other.          *)
(***************************************************************************)
WalkFile(p) ==
    /\ run.pc = "walk" /\ p \in run.work
    /\ run' = [run EXCEPT !.files[p] = disk[p], !.work = @ \ {p}]
    /\ catalogKept /\ quietly

WalkDone ==
    /\ run.pc = "walk" /\ run.work = {}
    /\ run' = [run EXCEPT !.pc = "buildAssets", !.work = assetFiles(run.files)]
    /\ catalogKept /\ quietly

(***************************************************************************)
(* buildAssets: an asset whose size and modification time are the ones in  *)
(* the catalog is reused, any other file is read now.                      *)
(***************************************************************************)
canReuseAsset(p) == assets[p] = run.files[p]

VanishedFile(p) ==
    /\ run.pc = "buildAssets" /\ p \in run.work
    /\ ~canReuseAsset(p) /\ disk[p] = 0
    /\ abort /\ UNCHANGED failures

BuildAsset(p) ==
    /\ run.pc = "buildAssets" /\ p \in run.work
    /\ canReuseAsset(p) \/ disk[p] # 0
    /\ run' = [run EXCEPT !.scanned[p] = IF canReuseAsset(p) THEN assets[p] ELSE disk[p],
                          !.work = @ \ {p}]
    /\ catalogKept /\ quietly

AssetsBuilt ==
    /\ run.pc = "buildAssets" /\ run.work = {}
    /\ run' = [run EXCEPT !.pc = "buildSidecars",
                          !.work = {s \in Sidecars : isSidecar(run.files, s)}]
    /\ catalogKept /\ quietly

(***************************************************************************)
(* buildSidecarVariants: trust is decided on the payload that is there now *)
(* and the ETag is the old one if the file looked unchanged to the walk.   *)
(***************************************************************************)
scannedSidecar(s) ==
    LET hash == run.scanned[Owner[s]] IN
    IF ~trusted(s) THEN NoVariant
    ELSE IF variants[s].etag = run.files[s] THEN [etag |-> run.files[s], source |-> hash]
    ELSE BuildSourceSidecarVariant(s, hash)

BuildSidecar(s) ==
    /\ run.pc = "buildSidecars" /\ s \in run.work
    /\ run' = [run EXCEPT !.sidecars[s] = scannedSidecar(s), !.work = @ \ {s}]
    /\ catalogKept /\ quietly

SidecarsBuilt ==
    /\ run.pc = "buildSidecars" /\ run.work = {}
    /\ run' = [run EXCEPT !.pc = "reconcile", !.work = {p \in Paths : run.scanned[p] # 0},
                          !.deleted = {p \in Paths : assets[p] # 0 /\ run.scanned[p] = 0}]
    /\ catalogKept /\ quietly

(***************************************************************************)
(* syncScannedAsset: the variants of a changed asset go first, then the    *)
(* asset is replaced.                                                      *)
(***************************************************************************)
SyncScannedAsset(p) ==
    /\ run.pc = "reconcile" /\ p \in run.work
    /\ variants' = IF assets[p] \notin {0, run.scanned[p]} THEN withoutVariantsOf(p) ELSE variants
    /\ run' = [run EXCEPT !.pc = "store", !.cur = <<p, run.scanned[p]>>, !.work = @ \ {p}]
    /\ UNCHANGED assets /\ announceLater /\ quietly

StoreScannedAsset ==
    /\ run.pc = "store"
    /\ assets' = [assets EXCEPT ![run.cur[1]] = run.cur[2]]
    /\ run' = [run EXCEPT !.pc = "reconcile", !.cur = <<>>]
    /\ UNCHANGED variants /\ announceLater /\ quietly

AssetsReconciled ==
    /\ run.pc = "reconcile" /\ run.work = {}
    /\ run' = to("removed")
    /\ catalogKept /\ quietly

ReconcileRemovedAsset(p) ==
    /\ run.pc = "removed" /\ p \in run.deleted
    /\ assets' = [assets EXCEPT ![p] = 0]
    /\ variants' = withoutVariantsOf(p)
    /\ run' = [run EXCEPT !.deleted = @ \ {p}]
    /\ announceLater /\ quietly

(***************************************************************************)
(* reconcileSourceSidecars: the scanned sidecars are upserted, then those  *)
(* the catalog had before and the scan did not find are deleted.           *)
(***************************************************************************)
RemovedReconciled ==
    /\ run.pc = "removed" /\ run.deleted = {}
    /\ run' = [run EXCEPT !.pc = "sidecarUpserts",
                          !.work = {s \in Sidecars : run.sidecars[s] # NoVariant},
                          !.deletedSidecars = {s \in Sidecars : variants[s] # NoVariant
                                                 /\ run.sidecars[s] = NoVariant}]
    /\ catalogKept /\ quietly

UpsertScannedSidecar(s) ==
    /\ run.pc = "sidecarUpserts" /\ s \in run.work
    /\ variants' = [variants EXCEPT ![s] = run.sidecars[s]]
    /\ run' = [run EXCEPT !.work = @ \ {s}]
    /\ UNCHANGED assets /\ announceLater /\ quietly

\* Mutation: a sidecar that is gone keeps its variant.
KeepStaleSidecar(s) ==
    /\ run.pc = "sidecarUpserts" /\ run.work = {} /\ s \in run.deletedSidecars
    /\ run' = [run EXCEPT !.deletedSidecars = @ \ {s}]
    /\ catalogKept /\ quietly

DeleteStaleSidecar(s) ==
    /\ run.pc = "sidecarUpserts" /\ run.work = {} /\ s \in run.deletedSidecars
    /\ variants' = [variants EXCEPT ![s] = NoVariant]
    /\ run' = [run EXCEPT !.deletedSidecars = @ \ {s}]
    /\ UNCHANGED assets /\ announceLater /\ quietly

FullDone ==
    /\ run.pc = "sidecarUpserts" /\ run.work = {} /\ run.deletedSidecars = {}
    /\ run' = to("publish")
    /\ catalogKept /\ quietly

-----------------------------------------------------------------------------
EditFiles == \E p \in Paths : WriteFile(p) \/ RemoveFile(p) \/ \E q \in Paths : RenameFile(p, q)

SyncIncrementally ==
    \/ RecordWrite \/ RecordDelete \/ FallBackToFull \/ NormalizeTargets
    \/ UpsertChangedAsset \/ SidecarsRebuilt \/ IncrementalDone
    \/ \E a \in Assets : ProcessDeletedAsset(a) \/ VanishedAsset(a) \/ ProcessChangedAsset(a)
    \/ \E s \in Sidecars : ProcessDeletedSidecar(s) \/ RebuildSidecar(s) \/ ProcessChangedSidecar(s)

SyncFull ==
    \/ WalkDone \/ AssetsBuilt \/ SidecarsBuilt \/ StoreScannedAsset \/ AssetsReconciled
    \/ RemovedReconciled \/ FullDone
    \/ \E p \in Paths :
         \/ WalkFile(p) \/ VanishedFile(p) \/ BuildAsset(p)
         \/ SyncScannedAsset(p) \/ ReconcileRemovedAsset(p)
    \/ \E s \in Sidecars : BuildSidecar(s) \/ UpsertScannedSidecar(s) \/ DeleteStaleSidecar(s)

RunSteps == SyncIncrementally \/ SyncFull \/ Publish

Next ==
    \/ EditFiles
    \/ WatchEvent \/ RecordPending \/ FlushPending
    \/ StartIncremental \/ StartScheduled
    \/ RunSteps \/ ReadError

(***************************************************************************)
(* The two watcher goroutines run, a run that has begun goes on, and the   *)
(* scheduled job and the flush get rescanMu in turn (Go's mutex does not   *)
(* starve a waiter).                                                       *)
(***************************************************************************)
Fairness ==
    /\ WF_vars(WatchEvent) /\ WF_vars(RecordPending) /\ WF_vars(FlushPending)
    /\ SF_vars(StartIncremental) /\ SF_vars(StartScheduled)
    /\ WF_vars(RunSteps)

Spec == Init /\ [][Next]_vars /\ Fairness

-----------------------------------------------------------------------------
(* Properties *)

InSync == cat = ScanOf(disk)

(***************************************************************************)
(* VariantsMatchAssets: at every moment, also in the middle of a run and   *)
(* after one that failed, a sidecar variant in the catalog belongs to the  *)
(* very version of the asset that the catalog shows.                       *)
(***************************************************************************)
VariantsMatchAssets ==
    \A s \in Sidecars : variants[s] # NoVariant =>
        assets[Owner[s]] # 0 /\ variants[s].source = assets[Owner[s]]

(***************************************************************************)
(* FullRescanIsExact: a full run during which no file changed leaves       *)
(* exactly what a scan shows in the catalog, whatever incremental runs and *)
(* failed runs had left in it before (syncFull).                           *)
(***************************************************************************)
FullRescanIsExact ==
    (run.pc = "publish" /\ run.full /\ clean) => InSync

(***************************************************************************)
(* WatchedIsNeverStale: when every event has been taken through and none   *)
(* was missed, the catalog serves no old version: an asset it lists is the *)
(* one on disk, and so is the file of every sidecar variant.  This also    *)
(* covers channel overflow and edits in the middle of a run.  The one      *)
(* exception is a file with a sidecar's name that a full scan found        *)
(* without its asset and listed as an asset itself: an incremental run     *)
(* takes its changes for those of a sidecar, and the version listed may be *)
(* an old one until the next full run.                                     *)
(***************************************************************************)
settled ==
    /\ notify = <<>> /\ changes = <<>> /\ pending = <<>> /\ batch = <<>>
    /\ rescanMu = "free" /\ ~lost
WatchedIsNeverStale ==
    settled =>
      /\ \A p \in Paths : assets[p] \in {0, disk[p]} \/ p \in passedOver
      /\ \A s \in Sidecars : variants[s].etag \in {0, disk[s]}

(***************************************************************************)
(* Converges: once the files hold still the catalog comes to show them and *)
(* stays so, and the change has been announced: lost events, failed runs,  *)
(* and what the incremental path leaves out are made up for by the         *)
(* scheduled full rescan.                                                  *)
(***************************************************************************)
Converges == <>[](InSync /\ ~silent)
=============================================================================
