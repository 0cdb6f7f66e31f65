# A TLA+ model of spack

spack serves a directory of static assets over HTTP. It keeps an in-memory
catalog of the assets and of their variants (compressed, resized, re-encoded),
generates variants lazily or ahead of time, follows changes of the source files,
and answers requests from a prepared, immutable snapshot of the catalog.

This directory models the parts of it whose correctness depends on the order in
which goroutines, events and failures happen. The modules are checked with TLC
on small instances; their safety properties are also proved with TLAPS, for
every number of goroutines, every bound and every configuration.

## The system

| Component | State | Operations | Interacts with | Hard because |
|---|---|---|---|---|
| Asset catalog (`internal/catalog`) | asset map, six variant indices, cached sorted listings | upserts, deletes, bulk replace, lookups, listings, `Snapshot` | everybody | colliding variants, cached listings filled by readers |
| Lazy pipeline queue (`internal/pipeline`) | buffered channel, dedup set, worker pool, closing flag | `Enqueue`, workers, start, stop | HTTP handlers, catalog, event bus | closing a channel others send on, panics, full queue |
| Generation (`internal/pipeline`) | tasks under way, image slots, memory budget | plan, execute once, list | catalog, artifact files, libvips | sources that change, shared results, two budgets, 64-bit estimates |
| Artifact cleanup (`internal/pipeline`, `internal/artifact`) | artifact files, hit times | `Write`, TTL and size eviction | catalog, event bus, memory cache | eviction races with generation and serving |
| Prepared snapshot service (`internal/server`) | published snapshot, rebuild flags, file roots | event handlers, rebuild worker, `Rebuild`, `DeleteVariantArtifact`, `stop` | event bus, catalog, HTTP handlers | coalescing without losing an event, shutdown |
| Source watching and rescans (`internal/task`, `internal/source`, `internal/sourcecatalog`) | pending changes, the run in progress | watch, incremental sync, full rescan | file system, catalog, event bus | files change during a run, lost events, partial failure |
| Memory cache (`internal/assetcache`, `internal/cachepolicy`) | ristretto cache, single-flight group | load, delete, warm | event bus, rescans, HTTP handlers | a load racing with an invalidation |
| Event bus (`internal/event`) | library | asynchronous publish | all services | handlers run late and concurrently |
| Resolver and negotiation (`internal/requestpath`, `internal/resolver`, `internal/server/prepared_select.go`) | none | path cleaning, Accept parsing, variant choice | catalog, snapshot | quality values, wildcards, ties; two implementations of one choice |
| Delivery (`internal/server`) | the requests, body budget | choose, open, retry after a missing artifact, report | snapshot, catalog, memory cache, files | a snapshot older than the files, headers of an earlier attempt |
| Parallel runners (`internal/asyncx`) | pool of jobs | fail-fast and collect-errors runs | scanner, compiler | cancellation while scheduling |
| Runtime lifecycle (`internal/runtime`, `cmd/spack-runtime`) | listener, fatal signal | start, serve, stop | all services | timeouts during start and stop |
| Bundle format, compiler (`internal/spackbundle`, `internal/compiler`) | files | write, verify, extract | catalog, file system | partial failure, limits |

What makes the modelled components correct:

* catalog: the indices name the same records, no listing is stale, a reader sees
  one moment, and callers cannot tell it from a plain set of variants;
* queue: never a send on the closed channel, a request is in one place only, the
  dedup set is exact, everything ends;
* prepared service: one worker, no lost event, the snapshot only advances,
  nothing rebuilds after stop, no root leaks;
* artifact cache: the cleanup counts right, ends within its limits and evicts by
  last use; files without a catalog entry do not stay, and a catalog entry
  without its file has one of three known causes;
* negotiation: both implementations find the same asset and choose the same
  variant of it, and the choice is the best the client accepts;
* delivery: a body goes out under its own headers, a missing variant leads to
  another representation where the retry still finds an asset, every request ends;
* source sync: a sidecar is never paired with another version of its asset, the
  watcher leaves nothing old behind except where a full scan has listed a sidecar
  as an asset, and the catalog converges to the files;
* memory cache: what is cached or prepared is what its ETag names, unless a load
  overlaps an invalidation or an edit is taken back unnoticed, and what either
  leaves in the cache goes away;
* generation: a variant listed for a source was made from that source, unless that
  source was replaced and came back meanwhile; decoding stays within its memory,
  every slot and byte comes back;
* bundles: the output path holds the old bundle or a new one with every asset, and
  who unpacks or reads one sees that one, whatever takes its place;
* lifecycle: a failed start leaves nothing behind, an exit without error means
  that nothing went wrong, a signal ends the process.

`PROJECT.json` lists every component, the hazards with their lines, the
correspondence of definitions and source lines, and the mutants.

## Modules

| Module | Models |
|---|---|
| `CatalogTypes` | variants, index records and their keys (`records.go`, `helpers.go`) |
| `Catalog` | what the catalog promises: atomic operations on a map and a set, the latest of colliding variants wins |
| `IndexedCatalog` | the catalog as implemented; implements `Catalog` |
| `PipelineQueue` | the lazy variant queue |
| `PreparedService` | the prepared snapshot and its rebuilds |
| `ArtifactCleanup`, `CleanupProofs` | artifact files: writing and listing, the cleanup by age and size, hits, rescans, restarts |
| `SourceSync`, `SourceSyncProofs` | watcher, incremental sync and full rescan |
| `RequestPath` | from a request's path to an asset: cleaning, candidates of the resolver, routes of the snapshot |
| `AcceptHeader` | one Accept or Accept-Encoding header, read entry by entry |
| `Negotiation` | the choice of an asset and a representation, by the resolver and by the prepared route; uses `RequestPath`, and `AcceptHeader` twice |
| `Delivery` | requests on both routes while variants come and go |
| `MemoryPolicy`, `MemoryCache`, `MemoryCacheProofs` | what may be cached and for how long; one file's copies in the memory cache and in the prepared snapshot |
| `ImageMemory`, `Generation`, `GenerationProofs` | the estimate of memory in 64-bit numbers; workers that plan, share, execute and list variants |
| `ParallelRun`, `BundleFormat`, `Compiler`, `CompilerProofs` | `asyncx` batches; bundles and their verification; a compilation, extraction and reading, which use both |
| `RuntimeLifecycle` | the process of `spack-runtime` from bootstrap to exit |
| `ServiceProofs` | theorems about `IndexedCatalog`, `PreparedService` and `RuntimeLifecycle` |
| `RequestProofs` | theorems about `Negotiation`, `Delivery` and `PipelineQueue` |
| `Sums` | lemmas about sums over finite sets, and least numbers, for the proofs |
| `MC*` | the instances TLC checks; where a configuration says all, there is no module |

**IndexedCatalog.** A writer holds `mu` for its whole operation and is one
action, enabled when no reader is inside its `RLock`. A reader takes two steps
on a cache miss, with other readers in between: look and compute, then store
under `cacheMu` unless another reader was first. `Snapshot` repeats that for
every asset under one `RLock`. `ReplaceCatalog` builds the next index outside
the lock, one variant at a time, and gives up on an invalid one. A sorted
listing is the set of its records: the order is a function of the set. The empty
string is `None`. Variant IDs are tuples of the labelled parts that the code
joins. The refinement maps the live records (`byKey`) to the abstract set; the
readers are invisible.

**PipelineQueue.** `Enqueue` is split where it reads or writes shared state: the
first look at `workerClosing`, `AddIfAbsent`, `RLock`, the second look, the
non-blocking send or the drop. `sync.RWMutex` keeps new readers out while a
writer waits. Closing runs in the code's order: flag, cancel, lock, close. Start
may return without workers (blank `CacheDir`), fail half-way (a failing
`Invoke` closes the queue) or succeed. Stop may time out in its wait for the
cleanup loop, which leaves queue and workers alone, or in its wait for the pool.
The context of the workers may end at any time, because it derives from the one
that `start` is given, the command's. A panicking stage ends its worker for good.
Only the compiler's container has the pipeline service
(`cmd/spack-compiler/container.go`), and its configuration asks for no lazy
workers, so that no command of this commit exercises the queue; the module is
about the service as its package and its tests use it.

**PreparedService.** The catalog is the number of its changes and a snapshot the
number it was compiled from. Handlers and workers step from one atomic operation
on the flags to the next. `Rebuild` is lock, refresh of the file roots (opening
a root and inserting it are two steps, only the second under `sourcesMu`),
compile (one `Catalog.Snapshot` call) and store. A worker's compile fails once
its context is cancelled. `stop` is flag, unsubscribe, cancel, wait or time out,
clean up.

**ArtifactCleanup.** `Store.Write` is two steps, temporary file and rename, and
listing the variant is a third; a second worker with the same task waits for the
first one's result (`sf.Do`). The cleanup takes one step per file and one for
each of the file, the catalog entry and the hit time, and works on the records
its scan made, while everybody else goes on. A removal may fail, and it also
fails when the file is gone: `os.IsNotExist` does not look into the error that
`removeCleanupFilePath` wraps. An eviction whose queue runs out returns
everything, as the code does. Ages are ticks, capped above the largest limit; a
restart keeps the files and forgets catalog and hits, and Init is such a start
with any artifacts left over.

**SourceSync.** Every edit gives a file a new version, standing for content and
modification time, and 0 is "no file". The stages of the path of a change are
variables: fsnotify's queue, the channel of one, the pending changes, the batch.
Each file that a run reads, and each catalog call it makes, is a step, so files
change between any two of them. Runs fail by a read error or because a file has
vanished. The loops over maps and sets visit their elements in any order. A full
scan makes an asset of a sidecar without its asset; `passedOver` remembers which of
these an incremental run has since passed over.

**RequestPath.** A path is the sequence of what stands between its slashes, so
"/docs/" is `<<"", "docs", "">>`. The fast way of `Clean` and `path.Clean` are
both there, since they must agree on what they both accept; `path.Clean` is a
recursive function over the segments. A segment with an escape is a name of its
own that `decode` maps to another one. A handler cleans the path of its
request, and what it keeps is the cleaned value. That value is cleaned again by the
resolver (`findAsset`) and by the retry of the prepared route
(`prepared_delivery.go:197`, which calls `newPreparedRequest`); the first is modelled
here, the second in `Delivery`.

**AcceptHeader, Negotiation.** A request is routed first: `Route` lets both ways
look for the same path in the same set of assets. The choice of a variant does
not depend on the path, so the path is forgotten (`Found`) before variants, query
and headers are chosen, which adds the two state spaces instead of multiplying
them. Reading a header is one step per entry, with the
qualities of the names and of the wildcards as its state, so that the state at
any moment is that of a shorter header. A quality is an integer between 0 and
`Top` (1.0); an entry without parameters is marked, because the prepared route's
shortcut looks for `;` and `*` in the header. `Answer` evaluates both choosers
on the same catalog: `resolvePreferredVariant` and `selectResponse`. A variant in
the catalog is of the asset's current source or of an old one. Sorting candidates
and taking the first that exists is the first of those that exist in the order of
the comparison, and a sorted list of widths has at place `i` the width that `i - 1`
others are smaller than. The prepared route compiles its tables for the default encodings
whatever the configuration says, while the resolver uses the configured ones; the
module is about a server with the default configuration.

**Delivery.** One asset whose own file stays, and variants that are numbers in the
order the client prefers. A handler chooses, and then opens: the artifact may have
gone in between. On the prepared route a miss deletes the catalog entry, rebuilds and
chooses from the new snapshot; on the resolver's it drops the cached body and the
entry and resolves again, a bounded number of times. The retry of the prepared route
cleans the cleaned path again, and `recleaned` says where that leads: to the same
asset; to another one, whose representations come after those of the first
(`NumOthers`), because what is left of an escape is undone; or to none, because
without its slash at the end a path like `v1.2/` does not fall back any more. Further
retries clean the same string and stay there. `Rerouted` are the requests whose path
may be such a one. Headers that a response does not have are left alone by the
prepared route (which therefore deletes the managed ones before a retry) and deleted
by the other. The cleaner removes a file and then its entry, the pipeline writes one
and then lists it, and each announces it with an event that becomes a rebuild. A
rebuild is one step here, since `rebuildMu` serialises them and `PreparedService`
takes it apart; it may fail, which is logged and not repeated. `part` tells ranges,
which are never taken from memory, from whole bodies.

**MemoryCache.** One file, in the source tree or an artifact, with its entry in
the cache, ristretto's buffer of sets and deletions, the single-flight load and
the prepared response. A request looks, joins or leads a load, looks again, reads
and stores; a rescan hashes, deletes the entry and lists; a preload selects, reads
and stores; each is a step, and an edit may come between any two. An edit may also
bring back an earlier content. A rescan compares hashes and takes that for no change,
so that nothing is deleted although what was there in between may have been read;
`takenBack` remembers that. `dirty` stands for the rebuild that a change asks for
(`PreparedService`). A source sidecar edited alone is listed without a `Delete`;
its body decodes to the same asset and is not told apart.

**Generation.** A worker goes through the stages, image and then compression,
plans against the catalog, and executes each task unless another worker is at it,
in which case it takes that one's result, also when that one's context has ended.
Image batches take a source slot, load the header, check the limits, take memory
and generate. Both semaphores hand out in the order of asking, as the library
does. An image is listed under the width it has, so a request without a width or
with one that is too large is planned again each time. The source may be edited, to a
content it had before or to another, at any of these points: an image is read once
for its header and once more for its pixels (`LoadSource`, `ReadPixels`), what is read
is not hashed again, and the result is listed under the hash of the plan
(`compression_stage.go:95-130`). `takenBack` remembers the contents that came back
while the catalog or a worker was still at them. `MaxInt` stands for the
largest `int64`: `ImageMemory` keeps the code's checks against overflow.

**ParallelRun, BundleFormat, Compiler.** `ParallelRun` is one batch: the scheduler
hands items to workers, an item may fail, and the context may end between any two
steps. `Compiler` runs three of them (scan, warm, hash) and writes index and
payload entry by entry to a temporary file that is renamed at the end. A stage may
skip a variant, and the cleanup loop, which the pipeline service starts in this
process too, may take an artifact and then its entry in the catalog
(`RemoveArtifact`, `DropVariant`) until the bundle is written. On an error the
temporary file is removed, but it stays if that fails as well: `cleanupTempBundle`
does not look at the error. A bundle is a sequence of entries; the bundles of other
origin that `MCCompiler` puts at the output path are each wrong in one way. Paths are
opaque except for `Below`, which says what lies in a directory of which name: no
extraction can create both. An extraction keeps the stream it opened; a `Reader`
opens the path again for every file.

**RuntimeLifecycle.** Bootstrap, `Listen`, the goroutine that serves, the wait for
`started`, `done` or the context, the wait for a signal or a fatal error, and the
stop: shutdown, close, wait, each with its timeout. The order in which the
container runs the hooks of other components is the library's. `early` remembers
that `Shutdown` came between `BeforeServe` and `Serve`; fasthttp then returns at
once, and a request accepted in the gap may be cut off.

## Runs

| Run | Bounds | Shows |
|---|---|---|
| `catalog` | 2 assets, 5 variants colliding in every way, 1 reader | `IndicesAgree`, `CachesFresh`, `ReadsAreCurrent`, `Implements` |
| `pipeline_queue` | 2 handlers, 2 workers, 3 keys, 1 slot, 1 panic | `NoSendOnClosed`, `PendingIsInFlight`, `RequestsComplete`, `WorkersStop` |
| `prepared_service` | 2 handlers, 2 workers, 1 request, 2 changes | `WorkerDiscipline`, `QuietIsCurrent`, `SourcesReleased`, `SnapshotNeverGoesBack`, `SnapshotCatchesUp` |
| `artifact` | 2 artifacts in 2 namespaces, 1 worker, 2 tasks, 1 failure or crash | `LimitsEnforced`, `RecentlyUsedStay`, `DanglingOnlyInRaces`, `OrphansReclaimed` |
| `source` | 1 asset, 1 sidecar, 3 edits, 1 lost event, 1 failed run | `VariantsMatchAssets`, `WatchedIsNeverStale`, `FullRescanIsExact`, `Converges` |
| `negotiation` | paths of 3 segments, 7 asset paths; 2 encodings, 2 formats, 6 variants, 2 header entries, 3 qualities | `PreparedAgrees`, `BestAcceptedVariant` |
| `delivery` | both routes, 2 requests, 1 of them with a path that may lead to another asset or nowhere when cleaned again, 1 variant of each asset, 2 changes or failures, 1 retry | `HeadersMatchBody`, `LoneMissFallsBack`, `RequestsEnd` |
| `delivery_race` | 2 requests, 2 variants | `MissingVariantFallsBack` is violated, see below |
| `bundle` | 2 assets, one at a path below which the 1 variant lies, 1 or 2 workers, 10 bundles to begin with, 1 fault or removal, 1 read | `BatchesAccountForAll`, `PublishedIsWhole`, `ExtractionIsExact`, `ReaderSeesOneBundle`, `CompileEnds` |
| `memory_cache` | 2 requests, 3 contents, 2 edits, 1 preload, 3 classes of files | `StaleOnlyByOverlap`, `PreparedBodyMatchesETag`, `StaleGoesAway` |
| `lifecycle` | 2 requests, 2 faults | `FailedStartLeavesNothing`, `ExitTellsTheTruth`, `ProcessEnds` |
| `generation` | 2 workers, 2 assets of 2 contents, 2 requests, 2 edits, cleanups, cancellations or failures | `ListedVariantsAreFresh`, `MemoryWithinLimit`, `GenerationEnds` |

Why these bounds are enough to be interesting: the variants of `catalog` include one
that replaces two others at once and one that takes an artifact path over from another
asset. Two handlers and one slot let the queue be full while one of them holds the
read lock and the other waits, and three keys let both workers be busy then. Two
workers of the prepared service let one give the role up while its successor starts,
with an event that arrives in that window. What all these runs check about safety is
proved for all bounds. Three edits in `source` fill the channel, put an edit before
and one during a run, and leave one for the time after; `BadVersions` makes the second
version of a sidecar an invalid payload. In `artifact` a file and its temporary exceed
the limit of the namespace, what that leaves can exceed the limit for all, and one
failing removal changes which file goes instead. Three path segments hold a directory,
a dot-dot behind it and a trailing slash; the special segments are all there, one with
a dot at its start and one that is escaped twice among them. Three qualities are
refused, accepted and preferred, and two entries are a name and its repetition or a
wildcard, in any order; longer headers are covered by `QualitiesStated`. In `delivery`
one variant of each asset lets a request miss one, be led to the other asset and miss
its variant too; two changes let a variant come back and go again, so that with one
retry the resolver's last attempt is within reach. In `bundle` two assets and two
workers let one item run, one be handed over and the context end; one fault at a time
is enough, since a fault ends the compilation and a removed artifact is left out or
ends it. In `memory_cache` the contents are a small, a large and one that may not be
cached, two edits go through them or back to the first, and two requests lead and join
a load. In `lifecycle` the second fault is one during the stop that the first has
caused. In `generation` both workers can be at the same image, of which two do not fit
into the memory at a time, and whose second content is too large, and two edits take
one back.

`CHECK_DEADLOCK FALSE` is set for the prepared service, which may be stopped and
have nothing left to do, and for the others that come to an end: requests that
are answered, a compilation, a process, bounded edits. Each property has a mutant
of the code that breaks it.

### Fairness

* Queue: goroutines that can run do run, and stages terminate. Nobody has to
  call `Enqueue` or stop. `RequestsComplete` is about a service that is running,
  has not been signalled and has fewer panics than workers.
* Prepared service: events are delivered, goroutines run. `LockRebuild` is
  strongly fair because Go's mutex hands itself over to a waiter that has waited
  for a millisecond, so no goroutine starves.
* Artifact cleanup: a task that began goes on, the loop of the cleanup runs
  again, and time passes. Tasks are bounded: if a file vanished during each scan
  for ever, each cleanup would be given up (`collectCleanupFiles` returns the
  error), so `OrphansReclaimed` is about caches that are quiet now and then.
  It needs a maximum age for the namespace; with size limits alone an orphan
  stays as long as there is room.
* Delivery: the goroutine of a request runs on until it is done. Nothing else has
  to happen: no rebuild, removal or generation is assumed. The prepared route's
  recursion has no bound of its own; it ends because changes are bounded and each
  retry needs an entry that was listed.
* Compiler: the goroutines of a compilation go on. `lifecycle`: so does the main
  goroutine, at the latest when a timeout expires; nothing is assumed of requests
  or of the server. `generation`: a worker that can go on does, and libvips
  returns; no context has to end.
* Memory cache: requests, preloads, a rescan after an edit and the compilation go
  on, ristretto works off its buffer, and an entry's time to live passes. It is
  that last one which ends a stale entry; a hit does not prolong it, except when
  requests with different `?format=` take turns, each of which stores the entry
  anew (`ensureAttachment`). The run has one format.
* Source sync: the watcher goroutines run, a run that began goes on, and the
  scheduled job and the flush get `rescanMu` in turn, by the same argument.
  Edits, losses and failures are bounded, which is what "once the files hold
  still" means.

### What the incremental sync does not do

The runs of `SourceSync` state what holds, and thereby what does not. After a
batch with REMOVE and CREATE of one path, the incremental run has dropped the
asset although the file is there; a failed run loses its batch and announces nothing.
That is why `WatchedIsNeverStale` lets an asset be missing, and why `Converges` rests
on the scheduled full rescan. A sidecar without its asset (`app.js.gz` without
`app.js`) is an asset to the full scan only: once it is listed, an incremental run
takes its changes for those of a sidecar without an owner and does nothing, so an old
version, or one that is gone, stays listed until the next full rescan. The property
sets these (`passedOver`) apart. No comment or test promises more.

### What the others do not do

`StaleOnlyByOverlap` names two causes of a stale body in the memory cache. One is
`overlap`: a load, or a re-attachment, has the old body in hand, or in ristretto's
buffer, when `Delete` runs, or reads a file which is not listed any more. The other
is `takenBack`: a file goes from A to B and back to A between two rescans, which
compare hashes (`source_rescan.go:213`, `source_rescan_change_set.go:123`), and what
was read of B meanwhile is cached under the ETag of A. Either body stays until its
time to live is over. `PreparedBodyMatchesETag` sets the second apart as well, since
no rescan asks for a rebuild; a prepared body of B stays until the next one.
`ListedVariantsAreFresh` has the same exception (`takenBack` of `Generation`, per
content): a variant that was made of B, or of a file that an identical rewrite had
cut short, is listed under the hash of A and stays.

`PublishedIsWhole` says that every scanned asset is in the bundle and that nothing
else is but variants of these. It does not say that every variant is: stages skip
some, and the cleanup loop may take one away before the bundle is written. It speaks
of the temporary file only where the compilation succeeds. `ExtractionIsExact` lets
an extraction fail for a bundle that `Verify` accepts if one of its paths is a
directory of another: `Verify` (`verify.go:44-68`) compares the entries with the index,
while extraction makes directories and new files (`extract.go:188`, `:195`). A
compilation can publish such a bundle itself, of an asset named `generated` beside the
variants' `generated/<kind>/...` (`bundle_files.go:144`).

A stop of the pipeline service that gives up in its wait for the cleanup loop leaves
the workers running and the queue open; `WorkersStop` is about a stop that gets to
its workers. `PreparedAgrees` sets three kinds of
paths apart, the first two because the resolver cleans twice: paths that are escaped
twice; directories with a dot in their name, which the prepared route serves and the
resolver does not find; and paths whose answer is the entry of a directory that has
the name of the entry or of the fallback target, since the prepared table has an alias
for that directory (`prepared_compile.go:47-68`) where the resolver looks for the file
alone. The proof brought the third to light. `ExitTellsTheTruth` sets `early` apart
(above). No comment or test promises more.

### Where the code and its tests disagree

`delivery_race`. On the prepared route, two requests that miss the same artifact at
once do not both fall back. The first drops the catalog entry and rebuilds; the
second finds the entry gone, `DeleteVariantArtifact` returns false, and
`retryPreparedArtifactMiss` (`prepared_delivery.go:194`) gives up, so that it ends
with an error although the asset's file is there. A request that comes between the
cleaner's removal of an entry and the rebuild fails in the same way. The tests
(`http_cache_test.go:124`, `prepared_sendfile_internal_test.go:130`) promise the
fallback and send one request. The resolver's route chooses again in any case.

One request is enough if its path changes when it is cleaned again. `/v1.2/` is
cleaned to `v1.2` and, because of the slash at its end, answered through the fallback.
If the chosen artifact is gone, the retry builds its request from the cleaned path
(`prepared_delivery.go:197`, `prepared_select.go:27`): `v1.2` has an extension and
does not fall back, nothing is found, and the request ends with an error although the
asset's file is there. The same tests promise the fallback, with a path that cleaning
leaves as it is. (`MissingVariantFallsBack` is violated by one request alone when
`Rerouted` contains it; the run keeps to the race.) `LoneMissFallsBack` shows that a
request which is the only one to miss something is answered if its path, cleaned
again, leads to an asset. That may be another one than before (`recleaned` = "other");
what is sent then still goes out under its own headers.

Two smaller observations: a variant generated again under the same path while a
request retries makes the next choice the same file, which the prepared route
takes for a failure; and after a retry it reports nothing as served, so the hit
does not count for the cleanup.

## Proofs

The theorems are in `RequestProofs`, `ServiceProofs`, `SourceSyncProofs`,
`MemoryCacheProofs`, `CleanupProofs`, `GenerationProofs` and `CompilerProofs`, and
hold for every value of the constants. The assumptions are the named ones of the
modules, and TLC evaluates each: the queue has at least one slot, bounds, sizes and
limits are natural numbers, `NoKey`, `Nothing`, `NoFile` and their like are none of
the things they stand for the lack of, sets of goroutines are disjoint, what is
counted or summed is finite, paths and lists of names are sequences, an asset has a
path and the entry has a name, `Below` relates a path to others only, and `Cacheable`
and `Rerouted` are among the representations and the requests. The two that say
something of a configuration are `MaxMemoryBytes < MaxInt` (a limit of the largest
`int64` is none) and that neither the index nor an unsafe path is the path of an
asset, which `normalizeBundlePath` sees to.

Queue and prepared service:

* `NeverSendsOnClosed`: with the types and "closing begins with the flag".
  Whoever stands before the send holds the read lock and has read the flag as
  false after taking it; `close` needs the lock that excludes it.
* `NeverTwiceInFlight`, `PendingIsExact`: proved together, since the dedup set
  keeps a key unique and uniqueness is what makes its removal right.
* `PreparedIsTyped`, `RootsAreReleased` (prepared service): the inductive invariant
  adds that `rebuildMu` is held exactly by the goroutine inside `Rebuild`, and
  counts the open roots: the one in the list and the one being inserted.
* `StopEndsRebuilds`: the flags follow the order of `stop()`; once it has seen
  no worker, one that starts late is at its first check at most.
* `SnapshotOnlyAdvances`: a compiled version lies between the published one and
  the catalog's, and only one goroutine holds one.
* `AtMostOneWorker`: ownership of the worker role moves by compare-and-swap.
  `WorkersKeepDiscipline` puts it together with `StopEndsRebuilds`.
* `NothingIsLost`: a change the snapshot lacks is, at every moment, an event, in
  a handler, in `rebuildAgain` or in a rebuild (`PendingInv`), and `rebuildAgain`
  is never set for nobody (`AgainInv`).

Negotiation and delivery:

* `QualitiesStated`: an entry more changes what a header says of one name or one
  wildcard only (`BestKept`, `LastKept`). The lemmas take the header and its
  constants as parameters and serve both instances of `AcceptHeader`; with the types
  they are inductive (`HeadersInv`).
* `PreparedAnswersAgree`, variants: the order of candidates is by up to three
  numbers, and of any set one candidate is first (`FirstOfThree`, by least natural
  numbers), so both ways have a first choice, and it is the same one
  (`ImagesAgree`, `EncodingsAgree`). A list of widths sorted by rank is ascending and
  complete (`SortedWidths`: the rank is an injection into as many numbers as there
  are widths), so the binary search finds what the resolver's scan finds
  (`SearchFindsClosest`). In a header that the shortcut takes for simple, all
  names have the quality 1.0 (`SimpleHeader`), so the server's order decides.
* `PreparedAnswersAgree`, paths: a cleaned path is plain, and cleaning a plain path
  again changes nothing but `allows` (`CleanedIsPlain`, `CleanedTwice`). A path is in
  the table of routes exactly if it is an asset or a directory with an entry
  (`AliasIsDirectory`, `RouteOf`). What is left are the cases set apart
  (`RoutesAgree`).
* `BestVariantIsServed`: what is kept of the header is what it states, so the first
  candidate is the best stated one (`AnswerIsBest`); nothing that it is judged by
  changes once there is an answer (`NegotiationInv`, `JudgedAlike`).
* `DeliveryIsTyped`, `HeadersOfBody`: one lemma per action says what it makes of
  its request. A choice is always defined, because the asset is always a
  candidate and the natural numbers are well-founded (`LeastIsOne`), and it is
  something the client accepts, in a retry as well, whichever asset that finds
  (`BestIsAccepted`, `AgainIsAccepted`). The
  inductive invariant adds that a request which has sent nothing has no status,
  and that on the prepared route no Content-Encoding is set before a send.
* `ErrorAfterAllAttempts`: a request that goes on has an attempt left.
* `LoneMissIsServed`: the inductive invariant (`LoneInv`) says who touches the
  store while nothing changes: only a request that has missed something. If that
  is one request alone, what the snapshot offers is listed, except for the variant
  that request has just deleted, and the snapshot it chooses from again lacks it. The
  theorem is about requests whose path leads to an asset, the same or another, when
  it is cleaned again; of the others it says nothing, since they do fail (above).

Catalog (`ServiceProofs`):

* `IndicesStayInAgreement`, `CachesStayFresh`, `ReadsStayCurrent`: an index is
  `Sound` if it has its shape, its parts agree and its cached listings are those
  of its records. Lemmas say that each operation keeps an index sound, be it the
  one in use or the one that `ReplaceCatalog` builds. What a reader holds is
  current because writers wait for it.
* `IndexedCatalogImplementsCatalog`: the step simulation, from the same
  invariant. An upsert removes exactly the records that collide with the new one,
  and the steps of readers, and of `ReplaceCatalog` before it swaps, are stutters.

Rescans (`SourceSyncProofs`):

* `VariantsStayMatched`: the invariant (`Matching`) says the same of what runs
  carry with them: what an incremental run has planned, what a scan has found, and
  what a reconciliation has still to remove.
* `FullRescansAreExact`: `Exact` follows a full run through its stages: as long as
  no file has changed since it began, its findings are those of the disk, and what
  it has gone through agrees with them.
* `WatchedStaysFresh`: a path is owed (`Owed`) if an event was lost or one that covers
  it is in a channel, in the pending set or in the batch. `NeverStale` says that the
  catalog, and what a run has read, is as new as the disk for each path that is not
  owed; an edit makes its path owed, and a run that settles a debt reads the file
  after it took the event, unless it passes the path over, which `passedOver` records.
  A write event of a file that is gone covers nothing: the removal that follows it
  does.

Memory cache and prepared bodies (`MemoryCacheProofs`):

* `StaysFreshWithoutOverlap`: of the bodies that circulate (in the cache, in its
  buffer, or held by a request or a preload that may store them; `Circulating`) each
  is a content of the file (`BodiesKnown`). Unless `overlap` or `takenBack` is set,
  none but the one on disk circulates when the catalog has the content of the disk or
  is about to be told it (`OnlyCurrent`). Since contents repeat, "older" and "newer"
  mean nothing here: a step that only carries bodies about or reads the file
  (`Carries`) keeps this, `Invalidate` empties the cache or records an overlap, and an
  edit either makes the catalog differ from the disk or takes one back. A request that
  is not disturbed finds the file and the catalog as they were (`Undisturbed`), so all
  it can send is what its ETag names.
* `PreparedStaysCurrent`: a compilation that no change has outdated has the listed
  ETag, and a body that differs from it belongs to an edit which the rescan has yet to
  see or which was taken back (`PreparedInv`); each step that changes the catalog asks
  for a rebuild.

Process (`ServiceProofs`):

* `FailedStartIsClean`, `ExitIsTruthful`: one invariant relates the point that the
  main goroutine has reached to the listener, the serving goroutine and the causes
  of failure so far (`ServerInv`, `StartInv`, `LifecycleStopInv`).

Sums (`Sums`). A sum over a set is a fold, and the provers cannot use induction over
data. `SumIsCardinality` therefore shows a sum of natural numbers to be the
cardinality of a set with one element for each unit that is added (`Units`), and what
the library knows of cardinalities becomes known of sums: without an element, over a
subset, over a bijection. Where an induction cannot be avoided (a recursive function
has a value for every argument, a fold adds up), the proof takes the least natural
number for which the claim fails (`LeastNatural`) and refutes it.

Artifact cleanup (`CleanupProofs`):

* `CleanupKeepsLimits`: the inductive invariant `CleanupInv` says in which list of the
  current phase each record is (`EvictionInv`), that the namespaces share none
  (`NamespacesApart`), that the running total is the size of what is there until an
  eviction runs out of files (`Counted`), and what is within its limit by now
  (`WithinLimits`).
* `EvictionByLastUse`: what the loop has taken was used no later than what is queued
  (`InOrder`); the eviction across namespaces keeps this within each.
* `OnlyRacesDangle`: an action property, by cases on the step that takes a file away
  or lists a variant, from the types and `CleanupInv`.

Generation (`GenerationProofs`):

* `VariantsAreFresh`: a content other than the hash it was planned for is `excused` if
  the file no longer has that hash or has returned to it. `FreshInv` says that what a
  worker has read (`ReadInv`), the artifacts it is about to list (`MadeInv`) and those
  the catalog lists (`ListedInv`) are of the content they are listed for or excused. An
  edit either leaves the hash, which excuses, or returns to one that is pending, which
  the history records; a rescan that sees a change unlists. A worker that shares
  another's result takes it for the same key.
* `MemoryIsLimited`: the memory granted is the sum of what the generating workers
  asked for (`MemoryInv`). An estimate is the sum over the widths cut off at
  `MaxInt` (`EstimateIsCapped`), and below `MaxInt` none of its parts was cut off, so
  one that is granted is exact (`EstimateIsExact`).

Bundles (`CompilerProofs`):

* `BatchesLoseNothing`: each item of a batch is in one place, and the first error is
  the outcome of one of them (`BatchInv`).
* `CompilationIsAtomic`: each pass adds what its batch has returned without an error
  (`DataInv`, `PassInv`), and what the cleanup loop takes meanwhile are variants only
  (`RemovalKeeps`); a temporary file that is complete has every scanned asset
  (`HashedAre`) and is one `Verify` accepts (`WrittenIsAccepted`), and only such a one
  is renamed.
* `ExtractionAgreesWithVerify`: between two payloads the budget is what the earlier
  ones take (`Progress`). `Verify` adds up all of them, so no prefix of a bundle it
  accepts exceeds a limit, and a prefix that does is in no bundle it accepts. What has
  been created so far has no file below another (`Apart`, `ApartOneMore`), and a payload
  that is in the way of one proves that the declared paths are no tree
  (`ObstructedIsNoTree`).
* `ReaderNeverMixesBundles`: what a `Reader` returns has the digest that its index
  declares, from whatever bundle it was read (`ReaderInv`).

Only model-checked: the liveness properties (`RequestsComplete`, `WorkersStop`,
`SnapshotCatchesUp`, `OrphansReclaimed`, `Converges`, `RequestsEnd`, `CompileEnds`,
`StaleGoesAway`, `ProcessEnds`, `GenerationEnds`), since fairness is out of the
prover's reach. `MissingVariantFallsBack` does not hold (above).

## Not modelled

Formatting, headers, metrics and logging; libvips; configuration; the command line;
health, robots and debug endpoints; resource hints. They keep no state that two actors
share, or they are data without behaviour. The catalog's metadata. In `SourceSync`:
variants the pipeline generated, the watcher's stop, path filters, bundle indices. In
`ArtifactCleanup`: the delivery of the events. In `PreparedService`: the content of a
snapshot and the budget for bodies. In `RequestPath`: spaces, backslashes and escaped
slashes. In `Delivery`: the parsing of ranges and changes of the asset itself. In
`Compiler`: an output file inside the directory of assets, which the scan leaves out.
In `Generation`: assets without a hash, who closes a fallback file source, and the
artifact store's checks of paths. In `MemoryCache`: more than one path, hence the
limits of the whole cache. In `RuntimeLifecycle`: the hooks of other components and
the order in which the container runs them; collectors, whose errors are only logged.
The artifact janitor is not scheduled by the program, and nothing calls `Enqueue` in
production any more; the queue is modelled because the service still starts and stops
it.

## Plan

1. Done: all components above.
2. Done: proofs of all safety properties that the runs check.
3. The recovery of stale asset names, the budget for prepared bodies, ranges.
