--------------------------- MODULE ArtifactCleanup ---------------------------
(***************************************************************************)
(* The artifact cache of internal/pipeline: workers write artifacts        *)
(* (artifact.Store.Write, a temporary file and a rename) and list them in  *)
(* the catalog; cleanupArtifacts sweeps the directory by age and by size;  *)
(* requests refresh the age of what they serve; a source rescan drops the  *)
(* variants of a changed asset.  None of them holds a lock that another    *)
(* one respects, and the files survive a crash while catalog and hit times *)
(* do not.                                                                 *)
(*                                                                         *)
(* Times are ages, counted in ticks and capped.  A cleanup is short        *)
(* compared to a tick, so no tick happens during one.                      *)
(***************************************************************************)
EXTENDS Integers, FiniteSets, FiniteSetsExt

CONSTANTS
    Paths,              \* artifact paths, one for each asset, source hash and suffix
    Namespaces,         \* first segments of the paths: "encoding", "image"
    NamespaceOf,        \* the namespace of a path
    SizeOf,             \* the size of the artifact at a path
    MaxAge,             \* compression.max_age of each namespace, 0 for no limit
    NamespaceMaxBytes,  \* the size limit of each namespace, 0 for none of its own
    MaxCacheBytes,      \* the limit for all, 0 for none
    Workers,            \* goroutines that process requests
    AgeCap,             \* bound: ages above it are not told apart
    MaxPlans,           \* bound: tasks that workers start
    MaxFaults           \* bound: failing file operations, restarts of the process and
                        \* changed assets, together

CleanupConstants ==
    /\ NamespaceOf \in [Paths -> Namespaces] /\ SizeOf \in [Paths -> Nat]
    /\ MaxAge \in [Namespaces -> Nat] /\ NamespaceMaxBytes \in [Namespaces -> Nat]
    /\ MaxCacheBytes \in Nat
    /\ IsFiniteSet(Paths) /\ IsFiniteSet(Workers)
    /\ Paths \cap (Workers \X Paths) = {}     \* no artifact has the name of a temporary file
    /\ {AgeCap, MaxPlans, MaxFaults} \subseteq Nat
    /\ \A n \in Namespaces : MaxAge[n] < AgeCap

ASSUME CleanupAssumption == CleanupConstants

VARIABLES
    files,      \* age of every file below CacheDir, temporary files included
    hits,       \* variantHits: age of the last hit
    listed,     \* artifact paths of the variants in the catalog
    task,       \* what each worker does, and for which path
    dropped,    \* paths a source rescan has unlisted and still has to remove
    phase,      \* where the cleanup is
    todo,       \* files the current loop of the cleanup still has to visit
    found,      \* cleanupFiles collected or kept so far
    evict,      \* the running evictCleanupFilesBySize
    removal,    \* the cleanupFile in removeCleanupFile and what comes next, or <<>>
    total,      \* cleanupResult.totalBytes
    history,    \* of this cleanup: removals that failed, evictions, "queue ran out"
    plans, faults

disk == <<files, listed, hits>>
cleanup == <<phase, todo, found, evict, removal, total, history>>
bounds == <<plans, faults>>
vars == <<disk, task, dropped, cleanup, bounds>>

(***************************************************************************)
(* A temporary file stands beside the artifact.  Its name holds the time;  *)
(* two that the same worker leaves behind are one here.                    *)
(***************************************************************************)
Temp(w, p) == <<w, p>>
Files == Paths \cup (Workers \X Paths)
artifactOf(f) == IF f \in Paths THEN f ELSE f[2]
cleanupNamespace(f) == NamespaceOf[artifactOf(f)]
Exists(f) == f \in DOMAIN files
Without(f, x) == [y \in DOMAIN f \ {x} |-> f[y]]
With(f, x, value) == [y \in DOMAIN f \cup {x} |-> IF y = x THEN value ELSE f[y]]
written(f) == With(files, f, 0)

cleanupFile(f, used) == [path |-> f, size |-> SizeOf[artifactOf(f)], lastUsed |-> used]
sizeSum(records) == MapThenSumSet(LAMBDA r : r.size, records)
inNamespace(records, n) == {r \in records : cleanupNamespace(r.path) = n}
pathsOf(records) == {r.path : r \in records}

noEviction == [scope |-> {}, queue |-> {}, removed |-> {}, bytes |-> 0, limit |-> 0]
noHistory == [failed |-> {}, evicted |-> {}, ranOut |-> FALSE]
noTask == [at |-> "idle", path |-> {}]
idleCleanup ==
    /\ phase' = "idle" /\ todo' = {} /\ found' = {} /\ removal' = <<>>
    /\ evict' = noEviction /\ total' = 0 /\ history' = noHistory

\* The process starts with the artifacts that an earlier one has left.
Init ==
    /\ files \in UNION {[left -> 0..AgeCap] : left \in SUBSET Paths}
    /\ hits = <<>> /\ listed = {}
    /\ task = [w \in Workers |-> noTask] /\ dropped = {}
    /\ phase = "idle" /\ todo = {} /\ found = {} /\ removal = <<>>
    /\ evict = noEviction /\ total = 0 /\ history = noHistory
    /\ plans = 0 /\ faults = 0

(***************************************************************************)
(* process: a stage plans a task for what is not listed or has no file,    *)
(* executes it under sf.Do, which lets a second worker with the same task  *)
(* wait for the first one's result, and upserts the variant.               *)
(***************************************************************************)
Working(p) == {w \in Workers : task[w].path = p /\ task[w].at \in {"write", "rename"}}
Waiting(p) == {w \in Workers : task[w].path = p /\ task[w].at = "wait"}
At(w, at) == task[w].at = at
\* The tasks after w and those that share its execution have moved on.
shared(w, next) ==
    [v \in Workers |-> IF v = w \/ v \in Waiting(task[w].path) THEN next ELSE task[v]]
upsertTask(w) == [task[w] EXCEPT !.at = "upsert"]

Plan(w, p) ==
    /\ At(w, "idle") /\ (p \notin listed \/ ~Exists(p))
    /\ plans < MaxPlans /\ plans' = plans + 1
    /\ task' = [task EXCEPT ![w] = [at |-> IF Working(p) = {} THEN "write" ELSE "wait", path |-> p]]
    /\ UNCHANGED <<disk, dropped, cleanup, faults>>

WriteTemp(w) ==
    /\ At(w, "write")
    /\ files' = written(Temp(w, task[w].path))
    /\ task' = [task EXCEPT ![w].at = "rename"]
    /\ UNCHANGED <<listed, hits, dropped, cleanup, bounds>>

\* A sweep may have removed the temporary file; then the rename fails.
Rename(w) ==
    LET tmp == Temp(w, task[w].path) IN
    /\ At(w, "rename")
    /\ IF Exists(tmp)
       THEN /\ files' = With(Without(files, tmp), task[w].path, 0)
            /\ task' = shared(w, upsertTask(w))
       ELSE /\ files' = files
            /\ task' = shared(w, noTask)
    /\ UNCHANGED <<listed, hits, dropped, cleanup, bounds>>

\* A write or a rename fails and may leave its temporary file, or a later
\* write of the same batch fails: what was renamed stays and is not listed.
StageFails(w) ==
    /\ task[w].at \in {"write", "rename", "upsert"} /\ faults < MaxFaults
    /\ faults' = faults + 1
    /\ IF At(w, "upsert")
       THEN task' = [task EXCEPT ![w] = noTask] /\ UNCHANGED files
       ELSE /\ task' = shared(w, noTask)
            /\ \/ files' = Without(files, Temp(w, task[w].path))
               \/ files' = written(Temp(w, task[w].path))
    /\ UNCHANGED <<listed, hits, dropped, cleanup, plans>>

UpsertVariant(w) ==
    /\ At(w, "upsert")
    /\ listed' = listed \cup {task[w].path}
    /\ task' = [task EXCEPT ![w] = noTask]
    /\ UNCHANGED <<files, hits, dropped, cleanup, bounds>>

(***************************************************************************)
(* The cleanup.  collectCleanupFiles lists the directory and then reads    *)
(* the entries; one that has vanished meanwhile ends the whole cleanup.    *)
(***************************************************************************)
StartCleanup ==
    /\ phase = "idle"
    /\ phase' = "scan" /\ todo' = DOMAIN files
    /\ UNCHANGED <<disk, task, dropped, found, evict, removal, total, history, bounds>>

effectiveLastUsed(f) == IF f \in DOMAIN hits THEN Min({hits[f], files[f]}) ELSE files[f]
ShouldRemoveExpired(r) ==
    LET age == MaxAge[cleanupNamespace(r.path)] IN age > 0 /\ r.lastUsed > age

\* Mutation: the cleanup looks only at files that the catalog lists.
prepareListedOnly ==
    LET records == {cleanupFile(f, effectiveLastUsed(f)) : f \in todo \cap listed} IN
    /\ phase = "scan" /\ \A f \in todo : Exists(f)
    /\ phase' = "ttl" /\ total' = sizeSum(records)
    /\ todo' = {r \in records : ShouldRemoveExpired(r)} /\ found' = records \ todo'
    /\ UNCHANGED <<disk, task, dropped, evict, removal, history, bounds>>

\* The files to be removed for their age are decided here, by what was read.
prepareCleanupResult ==
    LET records == {cleanupFile(f, effectiveLastUsed(f)) : f \in todo} IN
    /\ phase = "scan" /\ \A f \in todo : Exists(f)
    /\ phase' = "ttl" /\ total' = sizeSum(records)
    /\ todo' = {r \in records : ShouldRemoveExpired(r)} /\ found' = records \ todo'
    /\ UNCHANGED <<disk, task, dropped, evict, removal, history, bounds>>

ScanFails ==
    /\ phase = "scan" /\ \E f \in todo : ~Exists(f)
    /\ idleCleanup
    /\ UNCHANGED <<disk, task, dropped, bounds>>

(***************************************************************************)
(* removeCleanupFile: the file, the catalog entry, the hit time and the    *)
(* event, in this order.  A file that is gone counts as a failure, because *)
(* os.IsNotExist does not look into the wrapped error.                     *)
(***************************************************************************)
RemoveFile(r) ==
    /\ Exists(r.path)
    /\ files' = Without(files, r.path) /\ removal' = <<r, "catalog">>
    /\ UNCHANGED <<faults, history>>
RemoveFails(r) ==
    /\ UNCHANGED <<files, removal>>
    /\ history' = [history EXCEPT !.failed = @ \cup {r}]
    /\ IF Exists(r.path)
       THEN faults < MaxFaults /\ faults' = faults + 1
       ELSE UNCHANGED faults

ExpireFile(r) ==
    /\ phase = "ttl" /\ removal = <<>> /\ r \in todo
    /\ todo' = todo \ {r}
    /\ \/ RemoveFile(r) /\ UNCHANGED found
       \/ RemoveFails(r) /\ found' = found \cup {r}
    /\ UNCHANGED <<listed, hits, task, dropped, phase, evict, total, plans>>

DeleteVariantByArtifactPath ==
    /\ removal # <<>> /\ removal[2] = "catalog"
    /\ listed' = listed \ {removal[1].path}
    /\ removal' = <<removal[1], "hit">>
    /\ UNCHANGED <<files, hits, task, dropped, phase, todo, found, evict, total, history, bounds>>

\* clearVariantHit, the event and the accounting of the caller.
FinishRemoval ==
    LET r == removal[1] IN
    /\ removal # <<>> /\ removal[2] = "hit" /\ removal' = <<>>
    /\ hits' = Without(hits, r.path)
    /\ total' = total - r.size
    /\ IF phase = "ttl"
       THEN UNCHANGED <<evict, history>>
       ELSE /\ evict' = [evict EXCEPT !.bytes = @ - r.size, !.removed = @ \cup {r}]
            /\ history' = [history EXCEPT !.evicted = @ \cup {r}]
    /\ UNCHANGED <<files, listed, task, dropped, phase, todo, found, bounds>>

(***************************************************************************)
(* enforceCleanupCacheLimit: one eviction for each namespace, in any       *)
(* order, then one for all files together.  todo holds the files of the    *)
(* namespaces still to come, found what the evictions returned.            *)
(***************************************************************************)
MaxCacheBytesForNamespace(n) ==
    IF NamespaceMaxBytes[n] > 0 THEN NamespaceMaxBytes[n] ELSE MaxCacheBytes

needsEviction(records, limit) == limit > 0 /\ sizeSum(records) > limit
eviction(records, limit) ==
    [scope |-> records, queue |-> records, removed |-> {},
     bytes |-> sizeSum(records), limit |-> limit]

overNamespaceLimit(n) ==
    needsEviction(inNamespace(found, n), MaxCacheBytesForNamespace(n))

\* found keeps the files of the namespaces that need no eviction.
StartNamespaces ==
    /\ phase = "ttl" /\ todo = {} /\ removal = <<>>
    /\ phase' = "namespaces"
    /\ todo' = UNION {inNamespace(found, n) : n \in {m \in Namespaces : overNamespaceLimit(m)}}
    /\ found' = found \ todo'
    /\ UNCHANGED <<disk, task, dropped, evict, removal, total, history, bounds>>

EvictNamespace(n) ==
    LET records == inNamespace(todo, n) IN
    /\ phase = "namespaces" /\ records # {}
    /\ todo' = todo \ records
    /\ evict' = eviction(records, MaxCacheBytesForNamespace(n)) /\ phase' = "evictNamespace"
    /\ UNCHANGED <<disk, task, dropped, found, removal, total, history, bounds>>

\* Mutation: an eviction by namespace is taken to be enough.
EnforceTotalOnce ==
    /\ phase = "namespaces" /\ todo = {}
    /\ IF history.evicted = {} /\ needsEviction(found, MaxCacheBytes)
       THEN evict' = eviction(found, MaxCacheBytes) /\ phase' = "evictAll" /\ found' = {}
       ELSE phase' = "done" /\ UNCHANGED <<evict, found>>
    /\ UNCHANGED <<disk, task, dropped, todo, removal, total, history, bounds>>

EnforceTotal ==
    /\ phase = "namespaces" /\ todo = {}
    /\ IF needsEviction(found, MaxCacheBytes)
       THEN evict' = eviction(found, MaxCacheBytes) /\ phase' = "evictAll" /\ found' = {}
       ELSE phase' = "done" /\ UNCHANGED <<evict, found>>
    /\ UNCHANGED <<disk, task, dropped, todo, removal, total, history, bounds>>

\* Mutation: the priority is the wrong way round.
newestIn(queue) == {r \in queue : \A q \in queue : q.lastUsed >= r.lastUsed}

oldestIn(queue) == {r \in queue : \A q \in queue : q.lastUsed <= r.lastUsed}

evictCleanupFilesBySize(r) ==
    /\ phase \in {"evictNamespace", "evictAll"} /\ removal = <<>>
    /\ evict.bytes > evict.limit /\ r \in oldestIn(evict.queue)
    /\ evict' = [evict EXCEPT !.queue = @ \ {r}]
    /\ RemoveFile(r) \/ RemoveFails(r)
    /\ UNCHANGED <<listed, hits, task, dropped, phase, todo, found, total, plans>>

\* When the queue runs out, everything is returned, what was removed as well.
evictionResult ==
    IF evict.bytes > evict.limit THEN evict.scope ELSE evict.scope \ evict.removed

EndEviction ==
    /\ phase \in {"evictNamespace", "evictAll"} /\ removal = <<>>
    /\ evict.bytes <= evict.limit \/ evict.queue = {}
    /\ found' = found \cup evictionResult
    /\ phase' = IF phase = "evictNamespace" THEN "namespaces" ELSE "done"
    /\ evict' = noEviction
    /\ history' = [history EXCEPT !.ranOut = @ \/ evict.bytes > evict.limit]
    /\ UNCHANGED <<disk, task, dropped, todo, removal, total, bounds>>

EndCleanup == phase = "done" /\ idleCleanup /\ UNCHANGED <<disk, task, dropped, bounds>>

(***************************************************************************)
(* Requests.  One that is sent an artifact, from the file or from memory,  *)
(* marks the hit; one that finds no file removes the variant from the      *)
(* catalog.                                                                *)
(***************************************************************************)
Serve(p) ==
    /\ p \in listed
    /\ hits' = With(hits, p, 0)
    /\ UNCHANGED <<files, listed, task, dropped, cleanup, bounds>>
ServeMissing(p) ==
    /\ p \in listed /\ ~Exists(p)
    /\ listed' = listed \ {p}
    /\ UNCHANGED <<files, hits, task, dropped, cleanup, bounds>>

\* Mutation: the file goes before the catalog entry.
DropFilesFirst(p) ==
    /\ p \in listed /\ faults < MaxFaults
    /\ faults' = faults + 1
    /\ files' = Without(files, p) /\ dropped' = dropped \cup {p}
    /\ UNCHANGED <<listed, hits, task, cleanup, plans>>

\* invalidateAssetAndVariants of a source rescan: first the catalog, then the files.
DropVariants(p) ==
    /\ p \in listed /\ faults < MaxFaults
    /\ faults' = faults + 1
    /\ listed' = listed \ {p} /\ dropped' = dropped \cup {p}
    /\ UNCHANGED <<files, hits, task, cleanup, plans>>
RemoveDropped(p) ==
    /\ p \in dropped /\ dropped' = dropped \ {p}
    /\ \/ files' = Without(files, p) /\ UNCHANGED faults
       \/ faults < MaxFaults /\ faults' = faults + 1 /\ UNCHANGED files
    /\ UNCHANGED <<listed, hits, task, cleanup, plans>>

\* The process dies and starts again with the files it left.
Crash ==
    /\ faults < MaxFaults /\ faults' = faults + 1
    /\ listed' = {} /\ hits' = <<>> /\ dropped' = {}
    /\ task' = [w \in Workers |-> noTask] /\ idleCleanup
    /\ UNCHANGED <<files, plans>>

older(ages) == [f \in DOMAIN ages |-> Min({AgeCap, ages[f] + 1})]
Tick ==
    /\ phase = "idle" /\ <<older(files), older(hits)>> # <<files, hits>>
    /\ files' = older(files) /\ hits' = older(hits)
    /\ UNCHANGED <<listed, task, dropped, cleanup, bounds>>

WorkerStep(w) == WriteTemp(w) \/ Rename(w) \/ UpsertVariant(w)
CleanupStep ==
    \/ StartCleanup \/ prepareCleanupResult \/ ScanFails
    \/ \E r \in todo : ExpireFile(r)
    \/ StartNamespaces \/ \E n \in Namespaces : EvictNamespace(n)
    \/ EnforceTotal \/ \E r \in evict.queue : evictCleanupFilesBySize(r)
    \/ EndEviction \/ EndCleanup
    \/ DeleteVariantByArtifactPath \/ FinishRemoval

Next ==
    \/ \E w \in Workers : (\E p \in Paths : Plan(w, p)) \/ WorkerStep(w) \/ StageFails(w)
    \/ CleanupStep
    \/ \E p \in Paths : Serve(p) \/ ServeMissing(p) \/ DropVariants(p) \/ RemoveDropped(p)
    \/ Crash \/ Tick

Spec == Init /\ [][Next]_vars

(***************************************************************************)
(* Fairness: started work goes on, the loop of the cleanup runs again, and *)
(* time passes between two runs of it.                                     *)
(***************************************************************************)
Fairness ==
    /\ \A w \in Workers : WF_vars(WorkerStep(w))
    /\ WF_vars(CleanupStep) /\ SF_vars(Tick)
    /\ \A p \in Paths : WF_vars(RemoveDropped(p))
FairSpec == Spec /\ Fairness

-----------------------------------------------------------------------------
Ages == 0..AgeCap
cleanupFiles == {cleanupFile(f, a) : f \in Files, a \in Ages}
Phases == {"idle", "scan", "ttl", "namespaces", "evictNamespace", "evictAll", "done"}

(***************************************************************************)
(* Types, and the report never counts below zero: what the cleanup removes *)
(* it has counted.  Only after a queue that ran out a file that was        *)
(* removed and written again may be removed and subtracted twice.          *)
(***************************************************************************)
TypeOK ==
    /\ DOMAIN files \subseteq Files /\ \A f \in DOMAIN files : files[f] \in Ages
    /\ DOMAIN hits \subseteq Paths /\ \A f \in DOMAIN hits : hits[f] \in Ages
    /\ listed \subseteq Paths /\ dropped \subseteq Paths
    /\ \A w \in Workers :
         task[w] = noTask \/ task[w] \in [at : {"write", "rename", "wait", "upsert"}, path : Paths]
    /\ phase \in Phases /\ total \in Int /\ (total >= 0 \/ history.ranOut)
    /\ (phase = "scan") => (todo \subseteq Files)
    /\ (phase # "scan") => (todo \subseteq cleanupFiles)
    /\ found \subseteq cleanupFiles /\ evict.queue \subseteq evict.scope
    /\ plans \in 0..MaxPlans /\ faults \in 0..MaxFaults

(***************************************************************************)
(* A cleanup ends within every limit, whatever failed on the way, unless   *)
(* it ran out of files to remove: the files it keeps fit the limit of each *)
(* namespace and the limit for all.                                        *)
(***************************************************************************)
LimitsEnforced ==
    phase = "done" /\ ~history.ranOut =>
        /\ ~needsEviction(found, MaxCacheBytes)
        /\ \A n \in Namespaces :
             ~needsEviction(inNamespace(found, n), MaxCacheBytesForNamespace(n))

(***************************************************************************)
(* Eviction is by last use: when a cleanup ends, no file it evicted for    *)
(* its size was used more recently than one it keeps in the same           *)
(* namespace, as of the scan, unless removing the kept one failed.         *)
(***************************************************************************)
RecentlyUsedStay ==
    phase = "done" =>
        \A gone \in history.evicted, kept \in found \ (history.failed \cup history.evicted) :
            cleanupNamespace(gone.path) = cleanupNamespace(kept.path) => gone.lastUsed >= kept.lastUsed

(***************************************************************************)
(* A listed variant is without its file only after one of three races:     *)
(* removeCleanupFile took the file and is about to unlist it, a worker     *)
(* listed it whose file was swept between Write and UpsertVariant, or a    *)
(* rescan removes the file of a variant that a worker has listed again.    *)
(***************************************************************************)
Dangling(p) == p \in listed /\ ~Exists(p)
DanglingOnlyInRaces ==
    [][\A p \in Paths : Dangling(p)' /\ ~Dangling(p) =>
          \/ removal' # <<>> /\ removal'[1].path = p
          \/ \E w \in Workers : task[w] = [at |-> "upsert", path |-> p]
          \/ p \in dropped]_vars

(***************************************************************************)
(* What a failed batch, a failed write or a crash leaves behind does not   *)
(* stay: a file that is not listed is eventually removed or listed, if     *)
(* each namespace has a maximum age.  This is what writeImageVariants      *)
(* relies on when it does not roll back.                                   *)
(***************************************************************************)
OrphansReclaimed ==
    \A f \in Files : (Exists(f) /\ f \notin listed) ~> (~Exists(f) \/ f \in listed)
=============================================================================
