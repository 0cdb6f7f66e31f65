--------------------------- MODULE IndexedCatalog ---------------------------
(***************************************************************************)
(* internal/catalog: the in-memory catalog as it is implemented.           *)
(*                                                                         *)
(* Writers hold IndexedCatalog.mu for the whole operation, so each is one  *)
(* action, enabled only when no reader is inside its RLock.  Readers share *)
(* mu and fill the caches of sorted listings on a miss, in two steps that  *)
(* other readers interleave with: look in the cache and compute the list   *)
(* from an index, then store it under cacheMu unless another reader was    *)
(* first.  Sorting is a function of the set of records, so a listing is    *)
(* that set.  ReplaceCatalog builds the next catalog outside the lock, one *)
(* input at a time, and swaps it in under the lock.                        *)
(***************************************************************************)
EXTENDS CatalogTypes

CONSTANT Readers   \* goroutines that list or snapshot the catalog

VARIABLES
    assetsByPath,      \* path -> content
    sortedAssetCache,  \* [valid, list]: the sorted asset list, or nil
    index,             \* IndexedCatalog.variants, a variantIndex
    reader,            \* what each reading goroutine is doing under RLock
    replace            \* the ReplaceCatalog call in progress, if any

vars == <<assetsByPath, sortedAssetCache, index, reader, replace>>

(***************************************************************************)
(* The queries answered from a cache of sorted records.                    *)
(***************************************************************************)
VariantQueries ==
    {<<"asset", a>> : a \in AssetPaths}
    \cup {<<"image", r.AssetPath, r.ImageFormat>> : r \in {s \in Records : s.ImageFormat # None}}
    \cup {<<"stage", r.Stage>> : r \in {s \in Records : s.Stage # None}}
    \cup {<<"all">>}

AllAssets == <<"assets">>
Queries == VariantQueries \cup {AllAssets}

-----------------------------------------------------------------------------
(* variantIndex *)

newVariantIndex ==
    [byKey       |-> EmptyMap,
     byAssetPath |-> [a \in AssetPaths |-> {}],
     byArtifact  |-> EmptyMap,
     byEncoding  |-> EmptyMap,
     byImage     |-> EmptyMap,
     byStage     |-> [s \in {r.Stage : r \in Records} |-> {}],
     sorted      |-> EmptyMap]   \* the four sorted caches, keyed by query

\* Mutation: the listing of all variants and that of the stage are kept.
invalidateListingsOfAsset(r) ==
    {<<"asset", r.AssetPath>>}
    \cup (IF r.ImageFormat # None THEN {<<"image", r.AssetPath, r.ImageFormat>>} ELSE {})

(***************************************************************************)
(* invalidateRecordCache(r): the cached listings r may appear in.          *)
(***************************************************************************)
invalidateRecordCache(r) ==
    {<<"asset", r.AssetPath>>, <<"all">>}
    \cup (IF r.ImageFormat # None THEN {<<"image", r.AssetPath, r.ImageFormat>>} ELSE {})
    \cup (IF r.Stage # None THEN {<<"stage", r.Stage>>} ELSE {})

encodingKey(r) == <<r.AssetPath, r.Encoding>>
imageKey(r) == <<r.AssetPath, r.ImageFormat, r.Width>>

insert(idx, r) ==
    [byKey       |-> SetKey(idx.byKey, variantRecordKey(r), r),
     byAssetPath |-> [idx.byAssetPath EXCEPT ![r.AssetPath] = @ \cup {r}],
     byArtifact  |-> IF r.ArtifactPath # None
                       THEN SetKey(idx.byArtifact, r.ArtifactPath, r) ELSE idx.byArtifact,
     byEncoding  |-> IF r.Encoding # None
                       THEN SetKey(idx.byEncoding, encodingKey(r), r) ELSE idx.byEncoding,
     byImage     |-> IF r.ImageFormat # None
                       THEN SetKey(idx.byImage, imageKey(r), r) ELSE idx.byImage,
     byStage     |-> IF r.Stage # None
                       THEN [idx.byStage EXCEPT ![r.Stage] = @ \cup {r}] ELSE idx.byStage,
     sorted      |-> DropKeys(idx.sorted, invalidateRecordCache(r))]

(***************************************************************************)
(* delete for every record of R; the single deletions commute.             *)
(***************************************************************************)
delete(idx, R) ==
    LET keys == {variantRecordKey(r) : r \in R} IN
    [byKey       |-> DropKeys(idx.byKey, keys),
     byAssetPath |-> [a \in AssetPaths |->
                        {s \in idx.byAssetPath[a] :
                            ~ \E r \in R : r.AssetPath = a /\ variantRecordKey(r) = variantRecordKey(s)}],
     byArtifact  |-> DropKeys(idx.byArtifact, {r.ArtifactPath : r \in {s \in R : s.ArtifactPath # None}}),
     byEncoding  |-> DropKeys(idx.byEncoding, {encodingKey(r) : r \in {s \in R : s.Encoding # None}}),
     byImage     |-> DropKeys(idx.byImage, {imageKey(r) : r \in {s \in R : s.ImageFormat # None}}),
     byStage     |-> [t \in DOMAIN idx.byStage |->
                        {s \in idx.byStage[t] :
                            ~ \E r \in R : /\ r.Stage # None /\ r.Stage = t
                                           /\ variantRecordKey(r) = variantRecordKey(s)}],
     sorted      |-> DropKeys(idx.sorted, UNION {invalidateRecordCache(r) : r \in R})]

\* Mutation: a variant that takes over another's artifact path leaves it be.
replacementsIgnoringArtifact(idx, r) ==
    {idx.byKey[k] : k \in {variantRecordKey(r)} \cap DOMAIN idx.byKey}
    \cup {idx.byEncoding[k] : k \in {encodingKey(r)} \cap DOMAIN idx.byEncoding}
    \cup {idx.byImage[k] : k \in {imageKey(r)} \cap DOMAIN idx.byImage}

\* Mutation: every variant of the asset is replaced, not only the colliding.
replacementsOfWholeAsset(idx, r) ==
    idx.byAssetPath[r.AssetPath]
    \cup {idx.byArtifact[k] : k \in {r.ArtifactPath} \cap DOMAIN idx.byArtifact}

(***************************************************************************)
(* The records that a new record replaces: the holder of its key, of its   *)
(* artifact path, of its encoding and of its image format and width.       *)
(***************************************************************************)
collectReplacements(idx, r) ==
    {idx.byKey[k] : k \in {variantRecordKey(r)} \cap DOMAIN idx.byKey}
    \cup (IF r.ArtifactPath # None
            THEN {idx.byArtifact[k] : k \in {r.ArtifactPath} \cap DOMAIN idx.byArtifact} ELSE {})
    \cup (IF r.Encoding # None
            THEN {idx.byEncoding[k] : k \in {encodingKey(r)} \cap DOMAIN idx.byEncoding} ELSE {})
    \cup (IF r.ImageFormat # None
            THEN {idx.byImage[k] : k \in {imageKey(r)} \cap DOMAIN idx.byImage} ELSE {})

upsert(idx, r) == insert(delete(idx, collectReplacements(idx, r)), r)

(***************************************************************************)
(* The list a query computes from an index on a cache miss.                *)
(***************************************************************************)
listFrom(idx, q) ==
    CASE q[1] = "asset" -> idx.byAssetPath[q[2]]
      [] q[1] = "image" -> {idx.byImage[k] : k \in {j \in DOMAIN idx.byImage : j[1] = q[2] /\ j[2] = q[3]}}
      [] q[1] = "stage" -> idx.byStage[q[2]]
      [] OTHER          -> {idx.byKey[k] : k \in DOMAIN idx.byKey}

(***************************************************************************)
(* deleteByAssetPath lists through the cache, so it deletes what the cache *)
(* names, and leaves its own empty listing cached when there is nothing to *)
(* delete.                                                                 *)
(***************************************************************************)
deleteByAssetPath(idx, a) ==
    LET q == <<"asset", a>>
        records == IF q \in DOMAIN idx.sorted THEN idx.sorted[q] ELSE listFrom(idx, q)
    IN  delete([idx EXCEPT !.sorted = SetKey(@, q, records)], records)

deleteByArtifactPath(idx, p) ==
    IF p \in DOMAIN idx.byArtifact THEN delete(idx, {idx.byArtifact[p]}) ELSE idx

-----------------------------------------------------------------------------
(* Writers *)

noAssetCache == [valid |-> FALSE, list |-> {}]

\* Mutation: a writer does not wait for the readers.
noLock == TRUE

(***************************************************************************)
(* mu.Lock() waits until every reader has left its RLock.                  *)
(***************************************************************************)
Lock == \A r \in Readers : reader[r].pc = "idle"

UpsertAsset(path, content) ==
    /\ Lock
    /\ assetsByPath' = SetKey(assetsByPath, path, content)
    /\ sortedAssetCache' = noAssetCache
    /\ UNCHANGED <<index, reader, replace>>

(***************************************************************************)
(* A variant of an unknown asset is refused (ErrAssetNotFound).            *)
(***************************************************************************)
UpsertVariant(v) ==
    LET record == buildVariantRecord(v) IN
    /\ Lock
    /\ record.AssetPath \in DOMAIN assetsByPath
    /\ index' = upsert(index, record)
    /\ UNCHANGED <<assetsByPath, sortedAssetCache, reader, replace>>

DeleteAsset(path) ==
    /\ Lock
    /\ assetsByPath' = DropKeys(assetsByPath, {path})
    /\ sortedAssetCache' = noAssetCache
    /\ index' = deleteByAssetPath(index, path)
    /\ UNCHANGED <<reader, replace>>

DeleteVariants(path) ==
    /\ Lock
    /\ index' = deleteByAssetPath(index, path)
    /\ UNCHANGED <<assetsByPath, sortedAssetCache, reader, replace>>

DeleteVariantByArtifactPath(p) ==
    /\ Lock
    /\ index' = deleteByArtifactPath(index, p)
    /\ UNCHANGED <<assetsByPath, sortedAssetCache, reader, replace>>

-----------------------------------------------------------------------------
(* ReplaceCatalog *)

idleReplace == [pc |-> "idle", assets |-> EmptyMap, variants |-> newVariantIndex]

BeginReplace(A) ==
    /\ replace.pc = "idle"
    /\ replace' = [pc |-> "building", assets |-> A, variants |-> newVariantIndex]
    /\ UNCHANGED <<assetsByPath, sortedAssetCache, index, reader>>

(***************************************************************************)
(* The next variant of the input; one whose asset is not in the input      *)
(* fails the call and leaves the catalog alone.                            *)
(***************************************************************************)
ReplaceVariant(v) ==
    LET record == buildVariantRecord(v) IN
    /\ replace.pc = "building"
    /\ replace' = IF record.AssetPath \in DOMAIN replace.assets
                    THEN [replace EXCEPT !.variants = upsert(@, record)]
                    ELSE idleReplace
    /\ UNCHANGED <<assetsByPath, sortedAssetCache, index, reader>>

SwapCatalog ==
    /\ replace.pc = "building"
    /\ Lock
    /\ assetsByPath' = replace.assets
    /\ index' = replace.variants
    /\ sortedAssetCache' = noAssetCache
    /\ replace' = idleReplace
    /\ UNCHANGED reader

-----------------------------------------------------------------------------
(* Readers *)

idleReader == [pc |-> "idle", snapshot |-> FALSE, query |-> AllAssets, list |-> {}, held |-> EmptyMap]

cached(q) == IF q = AllAssets THEN sortedAssetCache.valid ELSE q \in DOMAIN index.sorted
cachedList(q) == IF q = AllAssets THEN sortedAssetCache.list ELSE index.sorted[q]
assetList == {[Path |-> a, Asset |-> assetsByPath[a]] : a \in DOMAIN assetsByPath}
computed(q) == IF q = AllAssets THEN assetList ELSE listFrom(index, q)

(***************************************************************************)
(* Look in the cache; on a miss compute the listing, to be stored next.    *)
(* held keeps the earlier listings of the same RLock section.              *)
(***************************************************************************)
look(q, snap, held) ==
    [pc |-> IF cached(q) THEN "return" ELSE "fill", snapshot |-> snap, query |-> q,
     list |-> IF cached(q) THEN cachedList(q) ELSE computed(q), held |-> held]

(***************************************************************************)
(* ListVariants, ListImageVariants, ListVariantsByStage, AllVariants and   *)
(* AllAssets answer one query; Snapshot lists the assets first.            *)
(***************************************************************************)
List(r, q) ==
    /\ reader[r].pc = "idle"
    /\ reader' = [reader EXCEPT ![r] = look(q, FALSE, EmptyMap)]
    /\ UNCHANGED <<assetsByPath, sortedAssetCache, index, replace>>

Snapshot(r) ==
    /\ reader[r].pc = "idle"
    /\ reader' = [reader EXCEPT ![r] = look(AllAssets, TRUE, EmptyMap)]
    /\ UNCHANGED <<assetsByPath, sortedAssetCache, index, replace>>

(***************************************************************************)
(* cacheByAssetPath and its siblings, and the second half of sortedAssets: *)
(* the first reader to get cacheMu stores its list, the others take it.    *)
(***************************************************************************)
FillCache(r) ==
    LET q == reader[r].query IN
    /\ reader[r].pc = "fill"
    /\ reader' = [reader EXCEPT ![r].pc = "return",
                                ![r].list = IF cached(q) THEN cachedList(q) ELSE @]
    /\ IF q = AllAssets
         THEN /\ sortedAssetCache' = IF cached(q) THEN sortedAssetCache
                                     ELSE [valid |-> TRUE, list |-> reader[r].list]
              /\ UNCHANGED index
         ELSE /\ index' = IF cached(q) THEN index
                          ELSE [index EXCEPT !.sorted = SetKey(@, q, reader[r].list)]
              /\ UNCHANGED sortedAssetCache
    /\ UNCHANGED <<assetsByPath, replace>>

heldBy(rd) == SetKey(rd.held, rd.query, rd.list)
listedPaths(rd) == {e.Path : e \in heldBy(rd)[AllAssets]}

(***************************************************************************)
(* Snapshot goes on to the variants of the next asset it listed.           *)
(***************************************************************************)
SnapshotNext(r, path) ==
    LET rd == reader[r] IN
    /\ rd.pc = "return" /\ rd.snapshot
    /\ path \in listedPaths(rd)
    /\ <<"asset", path>> \notin DOMAIN heldBy(rd)
    /\ reader' = [reader EXCEPT ![r] = look(<<"asset", path>>, TRUE, heldBy(rd))]
    /\ UNCHANGED <<assetsByPath, sortedAssetCache, index, replace>>

RUnlock(r) ==
    LET rd == reader[r] IN
    /\ rd.pc = "return"
    /\ rd.snapshot => \A path \in listedPaths(rd) : <<"asset", path>> \in DOMAIN heldBy(rd)
    /\ reader' = [reader EXCEPT ![r] = idleReader]
    /\ UNCHANGED <<assetsByPath, sortedAssetCache, index, replace>>

-----------------------------------------------------------------------------
Init ==
    /\ assetsByPath = EmptyMap
    /\ sortedAssetCache = noAssetCache
    /\ index = newVariantIndex
    /\ reader = [r \in Readers |-> idleReader]
    /\ replace = idleReplace

Write ==
    \/ \E path \in AssetPaths, content \in AssetContents : UpsertAsset(path, content)
    \/ \E v \in Variants : UpsertVariant(v)
    \/ \E path \in AssetPaths : DeleteAsset(path)
    \/ \E path \in AssetPaths : DeleteVariants(path)
    \/ \E v \in Variants : v.ArtifactPath # None /\ DeleteVariantByArtifactPath(v.ArtifactPath)

Replace ==
    \/ \E A \in AssetMaps : BeginReplace(A)
    \/ \E v \in Variants : ReplaceVariant(v)
    \/ SwapCatalog

Read ==
    \E r \in Readers :
        \/ \E q \in Queries : List(r, q)
        \/ Snapshot(r)
        \/ FillCache(r)
        \/ \E path \in AssetPaths : SnapshotNext(r, path)
        \/ RUnlock(r)

Next == Write \/ Replace \/ Read

Spec == Init /\ [][Next]_vars

-----------------------------------------------------------------------------
(* Properties *)

Holds(map, k, r) == k \in DOMAIN map /\ map[k] = r
Live(idx, r) == Holds(idx.byKey, variantRecordKey(r), r)

(***************************************************************************)
(* Each unique index holds exactly the live records that have its key.     *)
(***************************************************************************)
KeyAgrees(idx) ==
    \A k \in DOMAIN idx.byKey : idx.byKey[k] \in Records /\ variantRecordKey(idx.byKey[k]) = k
AssetPathAgrees(idx) ==
    \A a \in AssetPaths : idx.byAssetPath[a] = {r \in Records : Live(idx, r) /\ r.AssetPath = a}
ArtifactAgrees(idx) ==
    /\ \A k \in DOMAIN idx.byArtifact :
         LET r == idx.byArtifact[k] IN
         r \in Records /\ Live(idx, r) /\ r.ArtifactPath = k /\ k # None
    /\ \A r \in Records : Live(idx, r) /\ r.ArtifactPath # None => Holds(idx.byArtifact, r.ArtifactPath, r)
EncodingAgrees(idx) ==
    /\ \A k \in DOMAIN idx.byEncoding :
         LET r == idx.byEncoding[k] IN
         r \in Records /\ Live(idx, r) /\ encodingKey(r) = k /\ r.Encoding # None
    /\ \A r \in Records : Live(idx, r) /\ r.Encoding # None => Holds(idx.byEncoding, encodingKey(r), r)
ImageAgrees(idx) ==
    /\ \A k \in DOMAIN idx.byImage :
         LET r == idx.byImage[k] IN
         r \in Records /\ Live(idx, r) /\ imageKey(r) = k /\ r.ImageFormat # None
    /\ \A r \in Records : Live(idx, r) /\ r.ImageFormat # None => Holds(idx.byImage, imageKey(r), r)
StageAgrees(idx) ==
    \A t \in DOMAIN idx.byStage :
        idx.byStage[t] = {r \in Records : Live(idx, r) /\ r.Stage # None /\ r.Stage = t}

IndexAgrees(idx) ==
    /\ KeyAgrees(idx) /\ AssetPathAgrees(idx) /\ ArtifactAgrees(idx)
    /\ EncodingAgrees(idx) /\ ImageAgrees(idx) /\ StageAgrees(idx)

(***************************************************************************)
(* IndicesAgree: after any history of upserts, collisions, deletions and   *)
(* bulk replacements the six indices of the variantIndex name the same     *)
(* records (variant_index.go insert, delete, collectReplacements).  A      *)
(* lookup by encoding, image, artifact or stage never misses a variant     *)
(* that ListVariants shows, nor finds one that was deleted.                *)
(***************************************************************************)
IndicesAgree == IndexAgrees(index) /\ IndexAgrees(replace.variants)

CacheFresh(idx) == \A q \in DOMAIN idx.sorted : idx.sorted[q] = listFrom(idx, q)

(***************************************************************************)
(* CachesFresh: a sorted listing that is cached is the one its index would *)
(* give now (query_helpers.go, variant_index.go): no write leaves a stale  *)
(* listing behind and no slow reader stores one late.                      *)
(***************************************************************************)
CachesFresh ==
    /\ CacheFresh(index)
    /\ CacheFresh(replace.variants)
    /\ sortedAssetCache.valid => sortedAssetCache.list = assetList

(***************************************************************************)
(* ReadsAreCurrent: every list a reader has collected inside one RLock     *)
(* section, Snapshot's asset list and all its variant lists included, is   *)
(* the catalog's present content, so what it returns is one moment's state.*)
(***************************************************************************)
ReadsAreCurrent ==
    \A r \in Readers : reader[r].pc # "idle" =>
        \A q \in DOMAIN heldBy(reader[r]) : heldBy(reader[r])[q] = computed(q)

(***************************************************************************)
(* Implements: the indexed catalog with its caches behaves like the        *)
(* abstract one, each operation atomic and every colliding variant, and    *)
(* only those, replaced (the Catalog interface, model.go).                 *)
(***************************************************************************)
liveRecords(idx) == {idx.byKey[k] : k \in DOMAIN idx.byKey}
Abstract ==
    INSTANCE Catalog WITH
        assets <- assetsByPath,
        variants <- liveRecords(index),
        loading <- [pc |-> replace.pc, assets |-> replace.assets,
                    variants |-> liveRecords(replace.variants)]
Implements == Abstract!Spec
=============================================================================
