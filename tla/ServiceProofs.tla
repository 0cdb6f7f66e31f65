--------------------------- MODULE ServiceProofs ----------------------------
(***************************************************************************)
(* Theorems about the parts that live as long as the process, and their    *)
(* proofs: for any assets, variants and readers, the indexed catalog       *)
(* implements the abstract one (IndexedCatalog); for any number of         *)
(* handlers, workers, requests and changes, the prepared snapshot follows  *)
(* it (PreparedService); for any number of requests and failures, the      *)
(* process ends as it says (RuntimeLifecycle).                             *)
(***************************************************************************)
EXTENDS IndexedCatalog, PreparedService, RuntimeLifecycle, TLAPS

-----------------------------------------------------------------------------
(* IndexedCatalog *)

Stages == {r.Stage : r \in Records}

(***************************************************************************)
(* A variantIndex that its operations can work on.                         *)
(***************************************************************************)
IndexTypes(idx) ==
    /\ idx = [byKey |-> idx.byKey, byAssetPath |-> idx.byAssetPath, byArtifact |-> idx.byArtifact,
              byEncoding |-> idx.byEncoding, byImage |-> idx.byImage, byStage |-> idx.byStage,
              sorted |-> idx.sorted]
    /\ idx.byAssetPath \in [AssetPaths -> SUBSET Records]
    /\ idx.byStage \in [Stages -> SUBSET Records]
    /\ DOMAIN idx.sorted \subseteq VariantQueries

Sound(idx) == IndexTypes(idx) /\ IndexAgrees(idx) /\ CacheFresh(idx)

(***************************************************************************)
(* The readers: what a reader has listed is current as long as it is in    *)
(* its RLock section.                                                      *)
(***************************************************************************)
ReaderTypes ==
    /\ reader = [r \in Readers |-> reader[r]]
    /\ \A r \in Readers :
         /\ reader[r] = [pc |-> reader[r].pc, snapshot |-> reader[r].snapshot,
                         query |-> reader[r].query, list |-> reader[r].list,
                         held |-> reader[r].held]
         /\ reader[r].query \in Queries
         /\ DOMAIN reader[r].held \subseteq Queries

ReplaceTypes ==
    replace = [pc |-> replace.pc, assets |-> replace.assets, variants |-> replace.variants]

AssetCacheFresh == sortedAssetCache.valid => sortedAssetCache.list = assetList

CatalogInv ==
    /\ ReaderTypes /\ ReplaceTypes
    /\ Sound(index) /\ Sound(replace.variants)
    /\ AssetCacheFresh
    /\ ReadsAreCurrent

-----------------------------------------------------------------------------
(***************************************************************************)
(* LiveUnique: two live records with one key are the same.                 *)
(***************************************************************************)
LEMMA LiveUnique ==
    ASSUME NEW idx, NEW r, NEW s, Live(idx, r), Live(idx, s),
           variantRecordKey(r) = variantRecordKey(s)
    PROVE  r = s
BY DEF Live, Holds

(***************************************************************************)
(* LiveRecordsAre: liveRecords, the variants of the abstract catalog, are  *)
(* the records that are live.                                              *)
(***************************************************************************)
LEMMA LiveRecordsAre ==
    ASSUME NEW idx, KeyAgrees(idx)
    PROVE  liveRecords(idx) = {r \in Records : Live(idx, r)}
BY DEF liveRecords, KeyAgrees, Live, Holds

(***************************************************************************)
(* ListingIs: the list a query computes consists of the live records whose *)
(* insertion or deletion invalidates the query.                            *)
(***************************************************************************)
LEMMA ListingIs ==
    ASSUME NEW idx, IndexTypes(idx), IndexAgrees(idx), NEW q \in VariantQueries
    PROVE  listFrom(idx, q) = {r \in Records : Live(idx, r) /\ q \in invalidateRecordCache(r)}
<1> DEFINE Listed == {r \in Records : Live(idx, r) /\ q \in invalidateRecordCache(r)}
<1>1. CASE q \in {<<"asset", a>> : a \in AssetPaths}
  <2>1. PICK a \in AssetPaths : q = <<"asset", a>>
    BY <1>1
  <2>2. listFrom(idx, q) = idx.byAssetPath[a]
    BY <2>1 DEF listFrom
  <2>3. \A r : q \in invalidateRecordCache(r) <=> r.AssetPath = a
    BY <2>1 DEF invalidateRecordCache
  <2> QED
    BY <2>2, <2>3 DEF IndexAgrees, AssetPathAgrees
<1>2. CASE q \in {<<"image", r.AssetPath, r.ImageFormat>> : r \in {s \in Records : s.ImageFormat # None}}
  <2>1. PICK r0 \in Records : r0.ImageFormat # None /\ q = <<"image", r0.AssetPath, r0.ImageFormat>>
    BY <1>2
  <2>2. listFrom(idx, q) =
          {idx.byImage[k] : k \in {j \in DOMAIN idx.byImage : j[1] = r0.AssetPath /\ j[2] = r0.ImageFormat}}
    BY <2>1 DEF listFrom
  <2>3. \A r : q \in invalidateRecordCache(r) <=>
                 r.ImageFormat # None /\ r.AssetPath = r0.AssetPath /\ r.ImageFormat = r0.ImageFormat
    BY <2>1 DEF invalidateRecordCache
  <2>4. ASSUME NEW r \in listFrom(idx, q) PROVE r \in Listed
    <3>1. PICK k \in DOMAIN idx.byImage :
            r = idx.byImage[k] /\ k[1] = r0.AssetPath /\ k[2] = r0.ImageFormat
      BY <2>2, <2>4
    <3>2. r \in Records /\ Live(idx, r) /\ imageKey(r) = k /\ r.ImageFormat # None
      BY <3>1 DEF IndexAgrees, ImageAgrees
    <3> QED
      BY <3>1, <3>2, <2>3 DEF imageKey
  <2>5. ASSUME NEW r \in Listed PROVE r \in listFrom(idx, q)
    <3>1. Holds(idx.byImage, imageKey(r), r)
      BY <2>3, <2>5 DEF IndexAgrees, ImageAgrees
    <3>2. imageKey(r)[1] = r0.AssetPath /\ imageKey(r)[2] = r0.ImageFormat
      BY <2>3, <2>5 DEF imageKey
    <3> QED
      BY <3>1, <3>2, <2>2 DEF Holds
  <2> QED
    BY <2>4, <2>5
<1>3. CASE q \in {<<"stage", r.Stage>> : r \in {s \in Records : s.Stage # None}}
  <2>1. PICK r0 \in Records : r0.Stage # None /\ q = <<"stage", r0.Stage>>
    BY <1>3
  <2>2. listFrom(idx, q) = idx.byStage[r0.Stage]
    BY <2>1 DEF listFrom
  <2>3. \A r : q \in invalidateRecordCache(r) <=> r.Stage # None /\ r.Stage = r0.Stage
    BY <2>1 DEF invalidateRecordCache
  <2>4. r0.Stage \in DOMAIN idx.byStage
    BY DEF Stages, IndexTypes
  <2> QED
    BY <2>2, <2>3, <2>4 DEF IndexAgrees, StageAgrees
<1>4. CASE q = <<"all">>
  <2>1. listFrom(idx, q) = liveRecords(idx)
    BY <1>4 DEF listFrom, liveRecords
  <2>2. \A r : q \in invalidateRecordCache(r)
    BY <1>4 DEF invalidateRecordCache
  <2> QED
    BY <2>1, <2>2, LiveRecordsAre DEF IndexAgrees
<1> QED
  BY <1>1, <1>2, <1>3, <1>4 DEF VariantQueries

(***************************************************************************)
(* DeleteLive: delete takes the records it is given out of the live ones,  *)
(* and no other.                                                           *)
(***************************************************************************)
LEMMA DeleteLive ==
    ASSUME NEW idx, NEW R, \A r \in R : Live(idx, r)
    PROVE  \A s : Live(delete(idx, R), s) <=> Live(idx, s) /\ s \notin R
<1> TAKE s
<1> DEFINE keys == {variantRecordKey(r) : r \in R}
<1>1. delete(idx, R).byKey = DropKeys(idx.byKey, keys)
  BY DEF delete
<1>2. Live(delete(idx, R), s) <=> Live(idx, s) /\ variantRecordKey(s) \notin keys
  BY <1>1 DEF Live, Holds, DropKeys
<1>3. ASSUME Live(idx, s) PROVE variantRecordKey(s) \in keys <=> s \in R
  BY <1>3, LiveUnique
<1> QED
  BY <1>2, <1>3

(***************************************************************************)
(* DeleteSound: delete of live records keeps the indices in agreement and  *)
(* the caches fresh (variantIndex.delete).                                 *)
(***************************************************************************)
LEMMA DeleteSound ==
    ASSUME NEW idx, Sound(idx), NEW R \in SUBSET Records, \A r \in R : Live(idx, r)
    PROVE  Sound(delete(idx, R))
<1> DEFINE new == delete(idx, R)
<1>1. \A s : Live(new, s) <=> Live(idx, s) /\ s \notin R
  BY DeleteLive
<1>2. IndexTypes(new)
  <2>1. new = [byKey |-> new.byKey, byAssetPath |-> new.byAssetPath, byArtifact |-> new.byArtifact,
               byEncoding |-> new.byEncoding, byImage |-> new.byImage, byStage |-> new.byStage,
               sorted |-> new.sorted]
    BY DEF delete
  <2>2. new.byAssetPath \in [AssetPaths -> SUBSET Records]
    BY DEF delete, Sound, IndexTypes
  <2>3. new.byStage \in [Stages -> SUBSET Records]
    BY DEF delete, Sound, IndexTypes
  <2>4. DOMAIN new.sorted \subseteq VariantQueries
    BY DEF delete, DropKeys, Sound, IndexTypes
  <2> QED
    BY <2>1, <2>2, <2>3, <2>4 DEF IndexTypes
<1>3. KeyAgrees(new)
  BY DEF delete, DropKeys, Sound, IndexAgrees, KeyAgrees
<1>4. AssetPathAgrees(new)
  <2> SUFFICES ASSUME NEW a \in AssetPaths
               PROVE  new.byAssetPath[a] = {r \in Records : Live(new, r) /\ r.AssetPath = a}
    BY DEF AssetPathAgrees
  <2>1. idx.byAssetPath[a] = {r \in Records : Live(idx, r) /\ r.AssetPath = a}
    BY DEF Sound, IndexAgrees, AssetPathAgrees
  <2>2. new.byAssetPath[a] =
          {s \in idx.byAssetPath[a] :
             ~ \E r \in R : r.AssetPath = a /\ variantRecordKey(r) = variantRecordKey(s)}
    BY DEF delete
  <2>3. ASSUME NEW s \in idx.byAssetPath[a]
        PROVE  (\E r \in R : r.AssetPath = a /\ variantRecordKey(r) = variantRecordKey(s)) <=> s \in R
    BY <2>1, <2>3, LiveUnique
  <2> QED
    BY <2>1, <2>2, <2>3, <1>1
<1>5. ArtifactAgrees(new)
  <2>1. new.byArtifact = DropKeys(idx.byArtifact, {r.ArtifactPath : r \in {s \in R : s.ArtifactPath # None}})
    BY DEF delete
  <2>2. ASSUME NEW k \in DOMAIN new.byArtifact
        PROVE  LET r == new.byArtifact[k] IN
               r \in Records /\ Live(new, r) /\ r.ArtifactPath = k /\ k # None
    <3>1. k \in DOMAIN idx.byArtifact /\ new.byArtifact[k] = idx.byArtifact[k]
      BY <2>1, <2>2 DEF DropKeys
    <3>2. \A r \in R : r.ArtifactPath # None => r.ArtifactPath # k
      BY <2>1, <2>2 DEF DropKeys
    <3> QED
      BY <3>1, <3>2, <1>1 DEF Sound, IndexAgrees, ArtifactAgrees
  <2>3. ASSUME NEW s \in Records, Live(new, s), s.ArtifactPath # None
        PROVE  Holds(new.byArtifact, s.ArtifactPath, s)
    <3>1. Live(idx, s) /\ s \notin R /\ Holds(idx.byArtifact, s.ArtifactPath, s)
      BY <2>3, <1>1 DEF Sound, IndexAgrees, ArtifactAgrees
    <3>2. \A r \in R : r.ArtifactPath # None => Holds(idx.byArtifact, r.ArtifactPath, r)
      BY DEF Sound, IndexAgrees, ArtifactAgrees
    <3> QED
      BY <3>1, <3>2, <2>1 DEF Holds, DropKeys
  <2> QED
    BY <2>2, <2>3 DEF ArtifactAgrees
<1>6. EncodingAgrees(new)
  <2>1. new.byEncoding = DropKeys(idx.byEncoding, {encodingKey(r) : r \in {s \in R : s.Encoding # None}})
    BY DEF delete
  <2>2. ASSUME NEW k \in DOMAIN new.byEncoding
        PROVE  LET r == new.byEncoding[k] IN
               r \in Records /\ Live(new, r) /\ encodingKey(r) = k /\ r.Encoding # None
    <3>1. k \in DOMAIN idx.byEncoding /\ new.byEncoding[k] = idx.byEncoding[k]
      BY <2>1, <2>2 DEF DropKeys
    <3>2. \A r \in R : r.Encoding # None => encodingKey(r) # k
      BY <2>1, <2>2 DEF DropKeys
    <3> QED
      BY <3>1, <3>2, <1>1 DEF Sound, IndexAgrees, EncodingAgrees
  <2>3. ASSUME NEW s \in Records, Live(new, s), s.Encoding # None
        PROVE  Holds(new.byEncoding, encodingKey(s), s)
    <3>1. Live(idx, s) /\ s \notin R /\ Holds(idx.byEncoding, encodingKey(s), s)
      BY <2>3, <1>1 DEF Sound, IndexAgrees, EncodingAgrees
    <3>2. \A r \in R : r.Encoding # None => Holds(idx.byEncoding, encodingKey(r), r)
      BY DEF Sound, IndexAgrees, EncodingAgrees
    <3> QED
      BY <3>1, <3>2, <2>1 DEF Holds, DropKeys
  <2> QED
    BY <2>2, <2>3 DEF EncodingAgrees
<1>7. ImageAgrees(new)
  <2>1. new.byImage = DropKeys(idx.byImage, {imageKey(r) : r \in {s \in R : s.ImageFormat # None}})
    BY DEF delete
  <2>2. ASSUME NEW k \in DOMAIN new.byImage
        PROVE  LET r == new.byImage[k] IN
               r \in Records /\ Live(new, r) /\ imageKey(r) = k /\ r.ImageFormat # None
    <3>1. k \in DOMAIN idx.byImage /\ new.byImage[k] = idx.byImage[k]
      BY <2>1, <2>2 DEF DropKeys
    <3>2. \A r \in R : r.ImageFormat # None => imageKey(r) # k
      BY <2>1, <2>2 DEF DropKeys
    <3> QED
      BY <3>1, <3>2, <1>1 DEF Sound, IndexAgrees, ImageAgrees
  <2>3. ASSUME NEW s \in Records, Live(new, s), s.ImageFormat # None
        PROVE  Holds(new.byImage, imageKey(s), s)
    <3>1. Live(idx, s) /\ s \notin R /\ Holds(idx.byImage, imageKey(s), s)
      BY <2>3, <1>1 DEF Sound, IndexAgrees, ImageAgrees
    <3>2. \A r \in R : r.ImageFormat # None => Holds(idx.byImage, imageKey(r), r)
      BY DEF Sound, IndexAgrees, ImageAgrees
    <3> QED
      BY <3>1, <3>2, <2>1 DEF Holds, DropKeys
  <2> QED
    BY <2>2, <2>3 DEF ImageAgrees
<1>8. StageAgrees(new)
  <2> SUFFICES ASSUME NEW t \in DOMAIN new.byStage
               PROVE  new.byStage[t] = {r \in Records : Live(new, r) /\ r.Stage # None /\ r.Stage = t}
    BY DEF StageAgrees
  <2>1. t \in DOMAIN idx.byStage
    BY DEF delete
  <2>2. idx.byStage[t] = {r \in Records : Live(idx, r) /\ r.Stage # None /\ r.Stage = t}
    BY <2>1 DEF Sound, IndexAgrees, StageAgrees
  <2>3. new.byStage[t] =
          {s \in idx.byStage[t] :
             ~ \E r \in R : r.Stage # None /\ r.Stage = t /\ variantRecordKey(r) = variantRecordKey(s)}
    BY <2>1 DEF delete
  <2>4. ASSUME NEW s \in idx.byStage[t]
        PROVE  (\E r \in R : r.Stage # None /\ r.Stage = t /\ variantRecordKey(r) = variantRecordKey(s))
                 <=> s \in R
    BY <2>2, <2>4, LiveUnique
  <2> QED
    BY <2>2, <2>3, <2>4, <1>1
<1>9. IndexAgrees(new)
  BY <1>3, <1>4, <1>5, <1>6, <1>7, <1>8 DEF IndexAgrees
<1>10. CacheFresh(new)
  <2> SUFFICES ASSUME NEW q \in DOMAIN new.sorted PROVE new.sorted[q] = listFrom(new, q)
    BY DEF CacheFresh
  <2>1. new.sorted = DropKeys(idx.sorted, UNION {invalidateRecordCache(r) : r \in R})
    BY DEF delete
  <2>2. q \in DOMAIN idx.sorted /\ new.sorted[q] = idx.sorted[q]
        /\ \A r \in R : q \notin invalidateRecordCache(r)
    BY <2>1 DEF DropKeys
  <2>3. q \in VariantQueries
    BY <2>2 DEF Sound, IndexTypes
  <2>4. listFrom(idx, q) = {r \in Records : Live(idx, r) /\ q \in invalidateRecordCache(r)}
    BY <2>3, ListingIs DEF Sound
  <2>5. listFrom(new, q) = {r \in Records : Live(new, r) /\ q \in invalidateRecordCache(r)}
    BY <2>3, <1>2, <1>9, ListingIs
  <2>6. listFrom(new, q) = listFrom(idx, q)
    BY <2>2, <2>4, <2>5, <1>1
  <2> QED
    BY <2>2, <2>6 DEF Sound, CacheFresh
<1> QED
  BY <1>2, <1>9, <1>10 DEF Sound

(***************************************************************************)
(* The keys of Collide are those of the indices.                           *)
(***************************************************************************)
LEMMA CollideKeys ==
    ASSUME NEW r, NEW s
    PROVE  Abstract!Collide(r, s) <=>
             \/ variantRecordKey(r) = variantRecordKey(s)
             \/ r.ArtifactPath # None /\ r.ArtifactPath = s.ArtifactPath
             \/ r.Encoding # None /\ encodingKey(r) = encodingKey(s)
             \/ r.ImageFormat # None /\ imageKey(r) = imageKey(s)
BY DEF Abstract!Collide, Abstract!variantRecordKey, Abstract!variantImageFormatKey,
   variantRecordKey, encodingKey, imageKey

(***************************************************************************)
(* InsertLive: insert of a record under a free key adds it to the live     *)
(* ones.                                                                   *)
(***************************************************************************)
LEMMA InsertLive ==
    ASSUME NEW idx, NEW r,
           \A s : Live(idx, s) => variantRecordKey(s) # variantRecordKey(r)
    PROVE  \A s : Live(insert(idx, r), s) <=> Live(idx, s) \/ s = r
<1> TAKE s
<1>1. insert(idx, r).byKey = SetKey(idx.byKey, variantRecordKey(r), r)
  BY DEF insert
<1>2. Live(insert(idx, r), s) <=>
        IF variantRecordKey(s) = variantRecordKey(r) THEN s = r ELSE Live(idx, s)
  BY <1>1 DEF Live, Holds, SetKey
<1> QED
  BY <1>2

(***************************************************************************)
(* InsertSound: insert of a record that collides with no live one keeps    *)
(* the indices in agreement and the caches fresh (variantIndex.insert).    *)
(***************************************************************************)
LEMMA InsertSound ==
    ASSUME NEW idx, Sound(idx), NEW r \in Records,
           \A s \in Records : Live(idx, s) => ~Abstract!Collide(r, s)
    PROVE  /\ Sound(insert(idx, r))
           /\ \A s : Live(insert(idx, r), s) <=> Live(idx, s) \/ s = r
<1> DEFINE new == insert(idx, r)
<1>a. \A s : Live(idx, s) => s \in Records
  BY DEF Live, Holds, Sound, IndexAgrees, KeyAgrees
<1>b. \A s \in Records : Live(idx, s) =>
         /\ variantRecordKey(r) # variantRecordKey(s)
         /\ r.ArtifactPath # None => r.ArtifactPath # s.ArtifactPath
         /\ r.Encoding # None => encodingKey(r) # encodingKey(s)
         /\ r.ImageFormat # None => imageKey(r) # imageKey(s)
  BY CollideKeys
<1>1. \A s : Live(new, s) <=> Live(idx, s) \/ s = r
  BY <1>a, <1>b, InsertLive
<1>2. IndexTypes(new)
  <2>1. new = [byKey |-> new.byKey, byAssetPath |-> new.byAssetPath, byArtifact |-> new.byArtifact,
               byEncoding |-> new.byEncoding, byImage |-> new.byImage, byStage |-> new.byStage,
               sorted |-> new.sorted]
    BY DEF insert
  <2>2. new.byAssetPath \in [AssetPaths -> SUBSET Records]
    BY DEF insert, Sound, IndexTypes
  <2>3. new.byStage \in [Stages -> SUBSET Records]
    BY DEF insert, Sound, IndexTypes
  <2>4. DOMAIN new.sorted \subseteq VariantQueries
    BY DEF insert, DropKeys, Sound, IndexTypes
  <2> QED
    BY <2>1, <2>2, <2>3, <2>4 DEF IndexTypes
<1>3. KeyAgrees(new)
  BY DEF insert, SetKey, Sound, IndexAgrees, KeyAgrees
<1>4. AssetPathAgrees(new)
  <2> SUFFICES ASSUME NEW a \in AssetPaths
               PROVE  new.byAssetPath[a] = {s \in Records : Live(new, s) /\ s.AssetPath = a}
    BY DEF AssetPathAgrees
  <2>1. idx.byAssetPath[a] = {s \in Records : Live(idx, s) /\ s.AssetPath = a}
    BY DEF Sound, IndexAgrees, AssetPathAgrees
  <2>2. new.byAssetPath[a] = IF a = r.AssetPath THEN idx.byAssetPath[a] \cup {r} ELSE idx.byAssetPath[a]
    BY DEF insert, Sound, IndexTypes
  <2> QED
    BY <2>1, <2>2, <1>1
<1>5. ArtifactAgrees(new)
  <2>1. new.byArtifact = IF r.ArtifactPath # None
                           THEN SetKey(idx.byArtifact, r.ArtifactPath, r) ELSE idx.byArtifact
    BY DEF insert
  <2>2. \A k, s : Holds(new.byArtifact, k, s) <=>
          IF r.ArtifactPath # None /\ k = r.ArtifactPath THEN s = r ELSE Holds(idx.byArtifact, k, s)
    BY <2>1 DEF Holds, SetKey
  <2>3. ASSUME NEW k \in DOMAIN new.byArtifact
        PROVE  LET s == new.byArtifact[k] IN
               s \in Records /\ Live(new, s) /\ s.ArtifactPath = k /\ k # None
    <3>1. Holds(new.byArtifact, k, new.byArtifact[k])
      BY <2>3 DEF Holds
    <3>2. CASE r.ArtifactPath # None /\ k = r.ArtifactPath
      BY <3>1, <3>2, <2>2, <1>1
    <3>3. CASE ~(r.ArtifactPath # None /\ k = r.ArtifactPath)
      <4>1. k \in DOMAIN idx.byArtifact /\ new.byArtifact[k] = idx.byArtifact[k]
        BY <3>1, <3>3, <2>2 DEF Holds
      <4> QED
        BY <4>1, <1>1 DEF Sound, IndexAgrees, ArtifactAgrees
    <3> QED
      BY <3>2, <3>3
  <2>4. ASSUME NEW s \in Records, Live(new, s), s.ArtifactPath # None
        PROVE  Holds(new.byArtifact, s.ArtifactPath, s)
    BY <2>2, <2>4, <1>1, <1>b DEF Sound, IndexAgrees, ArtifactAgrees
  <2> QED
    BY <2>3, <2>4 DEF ArtifactAgrees
<1>6. EncodingAgrees(new)
  <2>1. new.byEncoding = IF r.Encoding # None
                           THEN SetKey(idx.byEncoding, encodingKey(r), r) ELSE idx.byEncoding
    BY DEF insert
  <2>2. \A k, s : Holds(new.byEncoding, k, s) <=>
          IF r.Encoding # None /\ k = encodingKey(r) THEN s = r ELSE Holds(idx.byEncoding, k, s)
    BY <2>1 DEF Holds, SetKey
  <2>3. ASSUME NEW k \in DOMAIN new.byEncoding
        PROVE  LET s == new.byEncoding[k] IN
               s \in Records /\ Live(new, s) /\ encodingKey(s) = k /\ s.Encoding # None
    <3>1. Holds(new.byEncoding, k, new.byEncoding[k])
      BY <2>3 DEF Holds
    <3> QED
      BY <3>1, <2>2, <1>1 DEF Holds, Sound, IndexAgrees, EncodingAgrees
  <2>4. ASSUME NEW s \in Records, Live(new, s), s.Encoding # None
        PROVE  Holds(new.byEncoding, encodingKey(s), s)
    BY <2>2, <2>4, <1>1, <1>b DEF Sound, IndexAgrees, EncodingAgrees
  <2> QED
    BY <2>3, <2>4 DEF EncodingAgrees
<1>7. ImageAgrees(new)
  <2>1. new.byImage = IF r.ImageFormat # None
                        THEN SetKey(idx.byImage, imageKey(r), r) ELSE idx.byImage
    BY DEF insert
  <2>2. \A k, s : Holds(new.byImage, k, s) <=>
          IF r.ImageFormat # None /\ k = imageKey(r) THEN s = r ELSE Holds(idx.byImage, k, s)
    BY <2>1 DEF Holds, SetKey
  <2>3. ASSUME NEW k \in DOMAIN new.byImage
        PROVE  LET s == new.byImage[k] IN
               s \in Records /\ Live(new, s) /\ imageKey(s) = k /\ s.ImageFormat # None
    <3>1. Holds(new.byImage, k, new.byImage[k])
      BY <2>3 DEF Holds
    <3> QED
      BY <3>1, <2>2, <1>1 DEF Holds, Sound, IndexAgrees, ImageAgrees
  <2>4. ASSUME NEW s \in Records, Live(new, s), s.ImageFormat # None
        PROVE  Holds(new.byImage, imageKey(s), s)
    BY <2>2, <2>4, <1>1, <1>b DEF Sound, IndexAgrees, ImageAgrees
  <2> QED
    BY <2>3, <2>4 DEF ImageAgrees
<1>8. StageAgrees(new)
  <2> SUFFICES ASSUME NEW t \in DOMAIN new.byStage
               PROVE  new.byStage[t] = {s \in Records : Live(new, s) /\ s.Stage # None /\ s.Stage = t}
    BY DEF StageAgrees
  <2>1. t \in DOMAIN idx.byStage
    BY DEF insert, Sound, IndexTypes
  <2>2. idx.byStage[t] = {s \in Records : Live(idx, s) /\ s.Stage # None /\ s.Stage = t}
    BY <2>1 DEF Sound, IndexAgrees, StageAgrees
  <2>3. new.byStage[t] = IF r.Stage # None /\ t = r.Stage THEN idx.byStage[t] \cup {r} ELSE idx.byStage[t]
    BY <2>1 DEF insert
  <2> QED
    BY <2>2, <2>3, <1>1
<1>9. IndexAgrees(new)
  BY <1>3, <1>4, <1>5, <1>6, <1>7, <1>8 DEF IndexAgrees
<1>10. CacheFresh(new)
  <2> SUFFICES ASSUME NEW q \in DOMAIN new.sorted PROVE new.sorted[q] = listFrom(new, q)
    BY DEF CacheFresh
  <2>1. new.sorted = DropKeys(idx.sorted, invalidateRecordCache(r))
    BY DEF insert
  <2>2. q \in DOMAIN idx.sorted /\ new.sorted[q] = idx.sorted[q] /\ q \notin invalidateRecordCache(r)
    BY <2>1 DEF DropKeys
  <2>3. q \in VariantQueries
    BY <2>2 DEF Sound, IndexTypes
  <2>4. listFrom(idx, q) = {s \in Records : Live(idx, s) /\ q \in invalidateRecordCache(s)}
    BY <2>3, ListingIs DEF Sound
  <2>5. listFrom(new, q) = {s \in Records : Live(new, s) /\ q \in invalidateRecordCache(s)}
    BY <2>3, <1>2, <1>9, ListingIs
  <2>6. listFrom(new, q) = listFrom(idx, q)
    BY <2>2, <2>4, <2>5, <1>1
  <2> QED
    BY <2>2, <2>6 DEF Sound, CacheFresh
<1> QED
  BY <1>1, <1>2, <1>9, <1>10 DEF Sound

(***************************************************************************)
(* ReplacementsAre: collectReplacements finds exactly the live records     *)
(* that the new one collides with.                                         *)
(***************************************************************************)
LEMMA ReplacementsAre ==
    ASSUME NEW idx, IndexAgrees(idx), NEW r \in Records
    PROVE  collectReplacements(idx, r) = {s \in Records : Live(idx, s) /\ Abstract!Collide(r, s)}
<1> DEFINE Key == {idx.byKey[k] : k \in {variantRecordKey(r)} \cap DOMAIN idx.byKey}
<1> DEFINE Artifact == IF r.ArtifactPath # None
              THEN {idx.byArtifact[k] : k \in {r.ArtifactPath} \cap DOMAIN idx.byArtifact} ELSE {}
<1> DEFINE Encoding == IF r.Encoding # None
              THEN {idx.byEncoding[k] : k \in {encodingKey(r)} \cap DOMAIN idx.byEncoding} ELSE {}
<1> DEFINE Image == IF r.ImageFormat # None
              THEN {idx.byImage[k] : k \in {imageKey(r)} \cap DOMAIN idx.byImage} ELSE {}
<1>1. Key = {s \in Records : Live(idx, s) /\ variantRecordKey(r) = variantRecordKey(s)}
  BY DEF IndexAgrees, KeyAgrees, Live, Holds
<1>2. Artifact = {s \in Records : Live(idx, s) /\ r.ArtifactPath # None /\ r.ArtifactPath = s.ArtifactPath}
  BY DEF IndexAgrees, ArtifactAgrees, Holds
<1>3. Encoding = {s \in Records : Live(idx, s) /\ r.Encoding # None /\ encodingKey(r) = encodingKey(s)}
  <2>1. ASSUME NEW s \in Encoding
        PROVE  s \in Records /\ Live(idx, s) /\ r.Encoding # None /\ encodingKey(r) = encodingKey(s)
    BY <2>1 DEF IndexAgrees, EncodingAgrees
  <2>2. ASSUME NEW s \in Records, Live(idx, s), r.Encoding # None, encodingKey(r) = encodingKey(s)
        PROVE  s \in Encoding
    <3>1. s.Encoding # None
      BY <2>2 DEF encodingKey
    <3> QED
      BY <2>2, <3>1 DEF IndexAgrees, EncodingAgrees, Holds
  <2> QED
    BY <2>1, <2>2
<1>4. Image = {s \in Records : Live(idx, s) /\ r.ImageFormat # None /\ imageKey(r) = imageKey(s)}
  <2>1. ASSUME NEW s \in Image
        PROVE  s \in Records /\ Live(idx, s) /\ r.ImageFormat # None /\ imageKey(r) = imageKey(s)
    BY <2>1 DEF IndexAgrees, ImageAgrees
  <2>2. ASSUME NEW s \in Records, Live(idx, s), r.ImageFormat # None, imageKey(r) = imageKey(s)
        PROVE  s \in Image
    <3>1. s.ImageFormat # None
      BY <2>2 DEF imageKey
    <3> QED
      BY <2>2, <3>1 DEF IndexAgrees, ImageAgrees, Holds
  <2> QED
    BY <2>1, <2>2
<1>5. collectReplacements(idx, r) = Key \cup Artifact \cup Encoding \cup Image
  BY DEF collectReplacements
<1> HIDE DEF Key, Artifact, Encoding, Image
<1> QED
  BY <1>1, <1>2, <1>3, <1>4, <1>5, CollideKeys

(***************************************************************************)
(* UpsertSound: an upsert keeps an index sound and does to its live        *)
(* records what Put of the abstract catalog does.                          *)
(***************************************************************************)
LEMMA UpsertSound ==
    ASSUME NEW idx, Sound(idx), NEW r \in Records
    PROVE  /\ Sound(upsert(idx, r))
           /\ liveRecords(upsert(idx, r)) = Abstract!Put(liveRecords(idx), r)
<1> DEFINE R == collectReplacements(idx, r)
<1> DEFINE rest == delete(idx, R)
<1>1. R = {s \in Records : Live(idx, s) /\ Abstract!Collide(r, s)}
  BY ReplacementsAre DEF Sound
<1> HIDE DEF R
<1>2. Sound(rest)
  BY <1>1, DeleteSound
<1>3. \A s : Live(rest, s) <=> Live(idx, s) /\ s \notin R
  BY <1>1, DeleteLive
<1>4. upsert(idx, r) = insert(rest, r)
  BY DEF upsert, R
<1> HIDE DEF rest
<1>5. \A s \in Records : Live(rest, s) => ~Abstract!Collide(r, s)
  BY <1>1, <1>3
<1>6. /\ Sound(upsert(idx, r))
      /\ \A s : Live(upsert(idx, r), s) <=> Live(rest, s) \/ s = r
  BY <1>2, <1>4, <1>5, InsertSound
<1>7. liveRecords(upsert(idx, r)) = {s \in Records : Live(upsert(idx, r), s)}
  BY <1>6, LiveRecordsAre DEF Sound, IndexAgrees
<1>8. liveRecords(idx) = {s \in Records : Live(idx, s)}
  BY LiveRecordsAre DEF Sound, IndexAgrees
<1>9. liveRecords(upsert(idx, r)) = {s \in liveRecords(idx) : ~Abstract!Collide(r, s)} \cup {r}
  BY <1>1, <1>3, <1>6, <1>7, <1>8
<1> QED
  BY <1>6, <1>9 DEF Abstract!Put

(***************************************************************************)
(* CacheListing: storing a query's current listing keeps an index sound.   *)
(***************************************************************************)
LEMMA CacheListing ==
    ASSUME NEW idx, Sound(idx), NEW q \in VariantQueries
    PROVE  LET new == [idx EXCEPT !.sorted = SetKey(@, q, listFrom(idx, q))] IN
           /\ Sound(new)
           /\ \A s : Live(new, s) <=> Live(idx, s)
           /\ liveRecords(new) = liveRecords(idx)
           /\ \A p : listFrom(new, p) = listFrom(idx, p)
<1> DEFINE new == [idx EXCEPT !.sorted = SetKey(@, q, listFrom(idx, q))]
<1>1. /\ new.byKey = idx.byKey /\ new.byAssetPath = idx.byAssetPath /\ new.byArtifact = idx.byArtifact
      /\ new.byEncoding = idx.byEncoding /\ new.byImage = idx.byImage /\ new.byStage = idx.byStage
  OBVIOUS
<1>2. new.sorted = SetKey(idx.sorted, q, listFrom(idx, q))
  BY DEF Sound, IndexTypes
<1>3. new = [byKey |-> new.byKey, byAssetPath |-> new.byAssetPath, byArtifact |-> new.byArtifact,
             byEncoding |-> new.byEncoding, byImage |-> new.byImage, byStage |-> new.byStage,
             sorted |-> new.sorted]
  BY DEF Sound, IndexTypes
<1> HIDE DEF new
<1>4. \A s : Live(new, s) <=> Live(idx, s)
  BY <1>1 DEF Live
<1>5. liveRecords(new) = liveRecords(idx)
  BY <1>1 DEF liveRecords
<1>6. \A p : listFrom(new, p) = listFrom(idx, p)
  BY <1>1 DEF listFrom
<1>7. IndexTypes(new)
  BY <1>1, <1>2, <1>3 DEF IndexTypes, Sound, SetKey
<1>8. IndexAgrees(new)
  BY <1>1, <1>4 DEF Sound, IndexAgrees, KeyAgrees, AssetPathAgrees, ArtifactAgrees, EncodingAgrees,
     ImageAgrees, StageAgrees
<1>9. CacheFresh(new)
  BY <1>2, <1>6 DEF Sound, CacheFresh, SetKey
<1> QED
  BY <1>4, <1>5, <1>6, <1>7, <1>8, <1>9 DEF new, Sound

(***************************************************************************)
(* DeleteByAssetPathSound: although it lists through the cache,            *)
(* deleteByAssetPath deletes exactly the variants of the asset.            *)
(***************************************************************************)
LEMMA DeleteByAssetPathSound ==
    ASSUME NEW idx, Sound(idx), NEW a \in AssetPaths
    PROVE  /\ Sound(deleteByAssetPath(idx, a))
           /\ liveRecords(deleteByAssetPath(idx, a)) = {s \in liveRecords(idx) : s.AssetPath # a}
<1> DEFINE q == <<"asset", a>>
<1> DEFINE R == listFrom(idx, q)
<1> DEFINE filled == [idx EXCEPT !.sorted = SetKey(@, q, R)]
<1>1. q \in VariantQueries
  BY DEF VariantQueries
<1>2. deleteByAssetPath(idx, a) = delete(filled, R)
  BY DEF deleteByAssetPath, Sound, CacheFresh
<1>3. R = {r \in Records : Live(idx, r) /\ r.AssetPath = a}
  <2>1. R = idx.byAssetPath[a]
    BY DEF listFrom
  <2> QED
    BY <2>1 DEF Sound, IndexAgrees, AssetPathAgrees
<1>4. /\ Sound(filled)
      /\ \A s : Live(filled, s) <=> Live(idx, s)
      /\ liveRecords(filled) = liveRecords(idx)
  BY <1>1, CacheListing
<1> HIDE DEF filled, R
<1>5. Sound(delete(filled, R))
  BY <1>3, <1>4, DeleteSound
<1>6. \A s : Live(delete(filled, R), s) <=> Live(idx, s) /\ s \notin R
  BY <1>3, <1>4, DeleteLive
<1>7. liveRecords(delete(filled, R)) = {s \in Records : Live(delete(filled, R), s)}
  BY <1>5, LiveRecordsAre DEF Sound, IndexAgrees
<1>8. liveRecords(idx) = {s \in Records : Live(idx, s)}
  BY LiveRecordsAre DEF Sound, IndexAgrees
<1> QED
  BY <1>2, <1>3, <1>5, <1>6, <1>7, <1>8

(***************************************************************************)
(* DeleteByArtifactPathSound: deleteByArtifactPath deletes the variant     *)
(* that has the path, if there is one.                                     *)
(***************************************************************************)
LEMMA DeleteByArtifactPathSound ==
    ASSUME NEW idx, Sound(idx), NEW p, p # None
    PROVE  /\ Sound(deleteByArtifactPath(idx, p))
           /\ liveRecords(deleteByArtifactPath(idx, p)) = {s \in liveRecords(idx) : s.ArtifactPath # p}
<1> DEFINE new == deleteByArtifactPath(idx, p)
<1> DEFINE R == {s \in Records : Live(idx, s) /\ s.ArtifactPath = p}
<1>1. liveRecords(idx) = {s \in Records : Live(idx, s)}
  BY LiveRecordsAre DEF Sound, IndexAgrees
<1>2. CASE p \in DOMAIN idx.byArtifact
  <2>1. {idx.byArtifact[p]} = R
    BY <1>2 DEF Sound, IndexAgrees, ArtifactAgrees, Holds
  <2>2. new = delete(idx, R)
    BY <1>2, <2>1 DEF deleteByArtifactPath
  <2>3. Sound(new)
    BY <2>2, DeleteSound
  <2>4. \A s : Live(new, s) <=> Live(idx, s) /\ s \notin R
    BY <2>2, DeleteLive
  <2>5. liveRecords(new) = {s \in Records : Live(new, s)}
    BY <2>3, LiveRecordsAre DEF Sound, IndexAgrees
  <2> HIDE DEF new
  <2>6. liveRecords(new) = {s \in liveRecords(idx) : s.ArtifactPath # p}
    BY <2>4, <2>5, <1>1
  <2> QED
    BY <2>3, <2>6 DEF new
<1>3. CASE p \notin DOMAIN idx.byArtifact
  <2>1. new = idx
    BY <1>3 DEF deleteByArtifactPath
  <2>2. \A s \in liveRecords(idx) : s.ArtifactPath # p
    BY <1>1, <1>3 DEF Sound, IndexAgrees, ArtifactAgrees, Holds
  <2> QED
    BY <2>1, <2>2
<1> QED
  BY <1>2, <1>3

(***************************************************************************)
(* NewIndexSound: an empty index is sound and holds no variant.            *)
(***************************************************************************)
LEMMA NewIndexSound == Sound(newVariantIndex) /\ liveRecords(newVariantIndex) = {}
<1> DEFINE new == newVariantIndex
<1>1. \A s : ~Live(new, s)
  BY DEF newVariantIndex, EmptyMap, Live, Holds
<1>2. IndexTypes(new)
  BY DEF newVariantIndex, IndexTypes, EmptyMap, Stages
<1>3. IndexAgrees(new)
  BY <1>1 DEF newVariantIndex, EmptyMap, IndexAgrees, KeyAgrees, AssetPathAgrees, ArtifactAgrees,
     EncodingAgrees, ImageAgrees, StageAgrees
<1>4. CacheFresh(new)
  BY DEF newVariantIndex, EmptyMap, CacheFresh
<1>5. liveRecords(new) = {}
  BY DEF newVariantIndex, EmptyMap, liveRecords
<1> QED
  BY <1>2, <1>3, <1>4, <1>5 DEF Sound
-----------------------------------------------------------------------------
(***************************************************************************)
(* AbstractTypes: the abstract catalog is about the same values.           *)
(***************************************************************************)
LEMMA AbstractTypes ==
    /\ Abstract!Records = Records /\ Abstract!AssetMaps = AssetMaps /\ Abstract!EmptyMap = EmptyMap
    /\ \A f, k, x : Abstract!SetKey(f, k, x) = SetKey(f, k, x)
    /\ \A f, k : Abstract!DropKeys(f, k) = DropKeys(f, k)
BY DEF Abstract!Records, Records, Abstract!buildVariantRecord, buildVariantRecord, Abstract!VariantID,
   VariantID, Abstract!imageFormatKey, imageFormatKey, Abstract!AssetMaps, AssetMaps,
   Abstract!EmptyMap, EmptyMap, Abstract!SetKey, SetKey, Abstract!DropKeys, DropKeys

(***************************************************************************)
(* CatalogInvInit: the catalog begins empty, and so does the abstract one.        *)
(***************************************************************************)
LEMMA CatalogInvInit == Init => CatalogInv /\ Abstract!Init
<1> SUFFICES ASSUME Init PROVE CatalogInv /\ Abstract!Init
  OBVIOUS
<1>1. ReaderTypes /\ ReadsAreCurrent
  BY DEF Init, ReaderTypes, ReadsAreCurrent, idleReader, Queries, EmptyMap
<1>2. ReplaceTypes /\ Sound(index) /\ Sound(replace.variants)
  BY NewIndexSound DEF Init, ReplaceTypes, idleReplace
<1>3. AssetCacheFresh
  BY DEF Init, AssetCacheFresh, noAssetCache
<1>4. Abstract!Init
  BY NewIndexSound, AbstractTypes DEF Init, Abstract!Init, Abstract!notLoading, idleReplace
<1> QED
  BY <1>1, <1>2, <1>3, <1>4 DEF CatalogInv

(***************************************************************************)
(* LockedStep: a writer, who has waited for the readers, has nothing to    *)
(* care for but the index and the cache of the assets.                     *)
(***************************************************************************)
LEMMA LockedStep ==
    ASSUME CatalogInv, Lock, UNCHANGED reader, ReplaceTypes', Sound(index)', Sound(replace.variants)',
           AssetCacheFresh'
    PROVE  CatalogInv'
<1>1. ReaderTypes'
  BY DEF CatalogInv, ReaderTypes
<1>2. ReadsAreCurrent'
  BY DEF Lock, ReadsAreCurrent
<1> QED
  BY <1>1, <1>2 DEF CatalogInv

(***************************************************************************)
(* WriteStep: a write keeps the invariant and is the abstract operation.   *)
(***************************************************************************)
LEMMA WriteStep ==
    ASSUME CatalogInv, Write
    PROVE  CatalogInv' /\ Abstract!Next
<1> USE AbstractTypes
<1>1. ASSUME NEW path \in AssetPaths, NEW content \in AssetContents, UpsertAsset(path, content)
      PROVE  CatalogInv' /\ Abstract!Next
  <2>1. CatalogInv'
    BY <1>1, LockedStep DEF UpsertAsset, CatalogInv, ReplaceTypes, AssetCacheFresh, noAssetCache
  <2>2. Abstract!UpsertAsset(path, content)
    BY <1>1 DEF UpsertAsset, Abstract!UpsertAsset
  <2> QED
    BY <2>1, <2>2 DEF Abstract!Next
<1>2. ASSUME NEW v \in Variants, UpsertVariant(v)
      PROVE  CatalogInv' /\ Abstract!Next
  <2> DEFINE r == buildVariantRecord(v)
  <2>1. r \in Records
    BY DEF Records
  <2>2. r.AssetPath \in DOMAIN assetsByPath /\ index' = upsert(index, r)
    BY <1>2 DEF UpsertVariant
  <2> HIDE DEF r
  <2>3. Sound(index)' /\ liveRecords(index') = Abstract!Put(liveRecords(index), r)
    BY <2>1, <2>2, UpsertSound DEF CatalogInv
  <2>4. CatalogInv'
    BY <1>2, <2>3, LockedStep DEF UpsertVariant, CatalogInv, ReplaceTypes, AssetCacheFresh, assetList
  <2>5. Abstract!UpsertVariant(r)
    BY <1>2, <2>2, <2>3 DEF UpsertVariant, Abstract!UpsertVariant
  <2> QED
    BY <2>1, <2>4, <2>5 DEF Abstract!Next
<1>3. ASSUME NEW path \in AssetPaths, DeleteAsset(path)
      PROVE  CatalogInv' /\ Abstract!Next
  <2>1. Sound(index)' /\ liveRecords(index') = {s \in liveRecords(index) : s.AssetPath # path}
    BY <1>3, DeleteByAssetPathSound DEF DeleteAsset, CatalogInv
  <2>2. CatalogInv'
    BY <1>3, <2>1, LockedStep DEF DeleteAsset, CatalogInv, ReplaceTypes, AssetCacheFresh, noAssetCache
  <2>3. Abstract!DeleteAsset(path)
    BY <1>3, <2>1 DEF DeleteAsset, Abstract!DeleteAsset
  <2> QED
    BY <2>2, <2>3 DEF Abstract!Next
<1>4. ASSUME NEW path \in AssetPaths, DeleteVariants(path)
      PROVE  CatalogInv' /\ Abstract!Next
  <2>1. Sound(index)' /\ liveRecords(index') = {s \in liveRecords(index) : s.AssetPath # path}
    BY <1>4, DeleteByAssetPathSound DEF DeleteVariants, CatalogInv
  <2>2. CatalogInv'
    BY <1>4, <2>1, LockedStep DEF DeleteVariants, CatalogInv, ReplaceTypes, AssetCacheFresh, assetList
  <2>3. Abstract!DeleteVariants(path)
    BY <1>4, <2>1 DEF DeleteVariants, Abstract!DeleteVariants
  <2> QED
    BY <2>2, <2>3 DEF Abstract!Next
<1>5. ASSUME NEW v \in Variants, v.ArtifactPath # None, DeleteVariantByArtifactPath(v.ArtifactPath)
      PROVE  CatalogInv' /\ Abstract!Next
  <2> DEFINE r == buildVariantRecord(v)
  <2>1. r \in Records /\ r.ArtifactPath = v.ArtifactPath
    BY DEF Records, buildVariantRecord
  <2> HIDE DEF r
  <2>2. /\ Sound(index)'
        /\ liveRecords(index') = {s \in liveRecords(index) : s.ArtifactPath # r.ArtifactPath}
    BY <1>5, <2>1, DeleteByArtifactPathSound DEF DeleteVariantByArtifactPath, CatalogInv
  <2>3. CatalogInv'
    BY <1>5, <2>2, LockedStep DEF DeleteVariantByArtifactPath, CatalogInv, ReplaceTypes, AssetCacheFresh, assetList
  <2>4. Abstract!DeleteVariantByArtifactPath(r.ArtifactPath)
    BY <1>5, <2>2 DEF DeleteVariantByArtifactPath, Abstract!DeleteVariantByArtifactPath
  <2> QED
    BY <1>5, <2>1, <2>3, <2>4 DEF Abstract!Next
<1> QED
  BY <1>1, <1>2, <1>3, <1>4, <1>5 DEF Write

(***************************************************************************)
(* ReplaceStep: so does a step of ReplaceCatalog, which builds an index of *)
(* its own outside the lock.                                               *)
(***************************************************************************)
LEMMA ReplaceStep ==
    ASSUME CatalogInv, Replace
    PROVE  CatalogInv' /\ Abstract!Next
<1> USE AbstractTypes
<1>a. ASSUME UNCHANGED <<assetsByPath, sortedAssetCache, index, reader>>,
             ReplaceTypes', Sound(replace.variants)'
      PROVE  CatalogInv'
  BY <1>a DEF CatalogInv, ReaderTypes, AssetCacheFresh, assetList, ReadsAreCurrent, heldBy, computed
<1>1. ASSUME NEW A \in AssetMaps, BeginReplace(A)
      PROVE  CatalogInv' /\ Abstract!Next
  <2>1. CatalogInv'
    BY <1>1, <1>a, NewIndexSound DEF BeginReplace, ReplaceTypes
  <2>2. Abstract!BeginReplace(A)
    BY <1>1, NewIndexSound DEF BeginReplace, Abstract!BeginReplace
  <2> QED
    BY <2>1, <2>2 DEF Abstract!Next
<1>2. ASSUME NEW v \in Variants, ReplaceVariant(v)
      PROVE  CatalogInv' /\ Abstract!Next
  <2> DEFINE r == buildVariantRecord(v)
  <2>1. r \in Records
    BY DEF Records
  <2>2. replace' = IF r.AssetPath \in DOMAIN replace.assets
                     THEN [replace EXCEPT !.variants = upsert(@, r)] ELSE idleReplace
    BY <1>2 DEF ReplaceVariant
  <2> HIDE DEF r
  <2>3. CASE r.AssetPath \in DOMAIN replace.assets
    <3>1. replace' = [pc |-> replace.pc, assets |-> replace.assets, variants |-> upsert(replace.variants, r)]
      BY <2>2, <2>3 DEF CatalogInv, ReplaceTypes
    <3>2. /\ Sound(replace.variants)'
          /\ liveRecords(replace'.variants) = Abstract!Put(liveRecords(replace.variants), r)
      BY <2>1, <3>1, UpsertSound DEF CatalogInv
    <3>3. CatalogInv'
      BY <1>2, <1>a, <3>1, <3>2 DEF ReplaceVariant, ReplaceTypes
    <3>4. Abstract!LoadVariant(r)
      BY <1>2, <2>3, <3>1, <3>2 DEF ReplaceVariant, Abstract!LoadVariant
    <3> QED
      BY <2>1, <3>3, <3>4 DEF Abstract!Next
  <2>4. CASE r.AssetPath \notin DOMAIN replace.assets
    <3>1. replace' = idleReplace
      BY <2>2, <2>4
    <3>2. CatalogInv'
      BY <1>2, <1>a, <3>1, NewIndexSound DEF ReplaceVariant, ReplaceTypes, idleReplace
    <3>3. Abstract!LoadVariant(r)
      BY <1>2, <2>4, <3>1, NewIndexSound DEF ReplaceVariant, Abstract!LoadVariant, idleReplace, Abstract!notLoading
    <3> QED
      BY <2>1, <3>2, <3>3 DEF Abstract!Next
  <2> QED
    BY <2>3, <2>4
<1>3. CASE SwapCatalog
  <2>1. CatalogInv'
    BY <1>3, LockedStep, NewIndexSound DEF SwapCatalog, CatalogInv, ReplaceTypes, AssetCacheFresh, noAssetCache, idleReplace
  <2>2. Abstract!ReplaceCatalog
    BY <1>3, NewIndexSound DEF SwapCatalog, Abstract!ReplaceCatalog, idleReplace, Abstract!notLoading
  <2> QED
    BY <2>1, <2>2 DEF Abstract!Next
<1> QED
  BY <1>1, <1>2, <1>3 DEF Replace

(***************************************************************************)
(* A reader record, and what it says of the lists it has collected.        *)
(***************************************************************************)
ReaderType(rd) ==
    /\ rd = [pc |-> rd.pc, snapshot |-> rd.snapshot, query |-> rd.query, list |-> rd.list, held |-> rd.held]
    /\ rd.query \in Queries
    /\ DOMAIN rd.held \subseteq Queries

Current(rd) == \A q \in DOMAIN heldBy(rd) : heldBy(rd)[q] = computed(q)

(***************************************************************************)
(* CachedIsComputed: a hit gives what a miss would.                        *)
(***************************************************************************)
LEMMA CachedIsComputed ==
    ASSUME CatalogInv, NEW q \in Queries, cached(q)
    PROVE  cachedList(q) = computed(q)
BY DEF CatalogInv, AssetCacheFresh, Sound, CacheFresh, Queries, cached, cachedList, computed

(***************************************************************************)
(* LookIsCurrent: a listing begun with current lists in hand is current.   *)
(***************************************************************************)
LEMMA LookIsCurrent ==
    ASSUME CatalogInv, NEW q \in Queries, NEW snap, NEW held, DOMAIN held \subseteq Queries,
           \A p \in DOMAIN held : held[p] = computed(p)
    PROVE  ReaderType(look(q, snap, held)) /\ Current(look(q, snap, held))
<1>1. look(q, snap, held).list = computed(q)
  BY CachedIsComputed DEF look
<1>2. look(q, snap, held).query = q /\ look(q, snap, held).held = held
  BY DEF look
<1>3. ReaderType(look(q, snap, held))
  BY DEF look, ReaderType
<1>4. Current(look(q, snap, held))
  BY <1>1, <1>2 DEF Current, heldBy, SetKey
<1> QED
  BY <1>3, <1>4

(***************************************************************************)
(* SetReader: a reader that moves on with current lists disturbs nothing.  *)
(***************************************************************************)
LEMMA SetReader ==
    ASSUME CatalogInv, NEW r \in Readers, NEW rd, ReaderType(rd), rd.pc # "idle" => Current(rd),
           reader' = [reader EXCEPT ![r] = rd],
           UNCHANGED <<assetsByPath, sortedAssetCache, index, replace>>
    PROVE  CatalogInv' /\ UNCHANGED Abstract!vars
<1>1. reader' = [s \in Readers |-> IF s = r THEN rd ELSE reader[s]]
  BY DEF CatalogInv, ReaderTypes
<1>2. ReaderTypes'
  BY <1>1 DEF CatalogInv, ReaderTypes, ReaderType
<1>3. \A q : computed(q)' = computed(q)
  BY DEF computed, assetList
<1>4. ReadsAreCurrent'
  BY <1>1, <1>3 DEF CatalogInv, ReadsAreCurrent, Current, heldBy
<1>5. (AssetCacheFresh /\ ReplaceTypes)'
  BY DEF CatalogInv, AssetCacheFresh, assetList, ReplaceTypes
<1>6. UNCHANGED Abstract!vars
  BY DEF Abstract!vars
<1> QED
  BY <1>2, <1>4, <1>5, <1>6 DEF CatalogInv

(***************************************************************************)
(* FillStep: a reader stores its list, which is still the current one      *)
(* because no writer could come between, or takes the one another reader   *)
(* has stored.                                                             *)
(***************************************************************************)
LEMMA FillStep ==
    ASSUME CatalogInv, NEW r \in Readers, FillCache(r)
    PROVE  CatalogInv' /\ UNCHANGED Abstract!vars
<1> DEFINE q == reader[r].query
<1> DEFINE rd == [reader[r] EXCEPT !.pc = "return", !.list = IF cached(q) THEN cachedList(q) ELSE @]
<1>1. q \in Queries /\ ReaderType(reader[r])
  BY DEF CatalogInv, ReaderTypes, ReaderType
<1>2. Current(reader[r])
  BY DEF FillCache, CatalogInv, ReadsAreCurrent, Current
<1>3. reader[r].list = computed(q)
  BY <1>2 DEF Current, heldBy, SetKey
<1>4. rd.list = computed(q) /\ rd.query = q /\ rd.held = reader[r].held
  BY <1>1, <1>3, CachedIsComputed DEF ReaderType
<1>5. ReaderType(rd) /\ Current(rd)
  <2>1. ReaderType(rd)
    <3> DEFINE l == IF cached(q) THEN cachedList(q) ELSE reader[r].list
    <3> DEFINE back == [reader[r] EXCEPT !.pc = "return"]
    <3>1. ReaderType(back)
      BY <1>1 DEF ReaderType
    <3>2. rd = [back EXCEPT !.list = l]
      OBVIOUS
    <3> HIDE DEF l, back, rd
    <3> QED
      BY <3>1, <3>2 DEF ReaderType
  <2>2. heldBy(rd) = heldBy(reader[r])
    BY <1>3, <1>4 DEF heldBy
  <2> QED
    BY <1>2, <2>1, <2>2 DEF Current
<1>6. reader' = [s \in Readers |-> IF s = r THEN rd ELSE reader[s]]
  BY DEF FillCache, CatalogInv, ReaderTypes
<1> HIDE DEF rd
<1>7. /\ Sound(index)' /\ liveRecords(index') = liveRecords(index)
      /\ \A p : listFrom(index', p) = listFrom(index, p)
  <2>1. CASE q # AllAssets /\ ~cached(q)
    <3>1. index' = [index EXCEPT !.sorted = SetKey(@, q, listFrom(index, q))]
      BY <2>1, <1>3 DEF FillCache, computed
    <3>2. q \in VariantQueries
      BY <1>1, <2>1 DEF Queries
    <3> QED
      BY <3>1, <3>2, CacheListing DEF CatalogInv
  <2>2. CASE q = AllAssets \/ cached(q)
    BY <2>2 DEF FillCache, CatalogInv
  <2> QED
    BY <2>1, <2>2
<1>8. \A p : computed(p)' = computed(p)
  BY <1>7 DEF computed, assetList, FillCache
<1>9. ReaderTypes'
  BY <1>5, <1>6 DEF CatalogInv, ReaderTypes, ReaderType
<1>10. ReadsAreCurrent'
  BY <1>5, <1>6, <1>8 DEF CatalogInv, ReadsAreCurrent, Current, heldBy
<1>11. AssetCacheFresh'
  BY <1>3 DEF FillCache, CatalogInv, AssetCacheFresh, assetList, computed
<1>12. (ReplaceTypes /\ Sound(replace.variants))'
  BY DEF FillCache, CatalogInv, ReplaceTypes
<1>13. UNCHANGED Abstract!vars
  BY <1>7 DEF Abstract!vars, FillCache
<1> QED
  BY <1>7, <1>9, <1>10, <1>11, <1>12, <1>13 DEF CatalogInv

(***************************************************************************)
(* ReadStep: a step of a reader keeps the invariant, and is none of the    *)
(* abstract catalog.                                                       *)
(***************************************************************************)
LEMMA ReadStep ==
    ASSUME CatalogInv, Read
    PROVE  CatalogInv' /\ UNCHANGED Abstract!vars
<1>a. DOMAIN EmptyMap = {}
  BY DEF EmptyMap
<1> SUFFICES ASSUME NEW r \in Readers,
                    \/ \E q \in Queries : List(r, q)
                    \/ Snapshot(r)
                    \/ FillCache(r)
                    \/ \E path \in AssetPaths : SnapshotNext(r, path)
                    \/ RUnlock(r)
             PROVE  CatalogInv' /\ UNCHANGED Abstract!vars
  BY DEF Read
<1>1. ASSUME NEW q \in Queries, List(r, q)
      PROVE  CatalogInv' /\ UNCHANGED Abstract!vars
  BY <1>1, <1>a, LookIsCurrent, SetReader DEF List
<1>2. CASE Snapshot(r)
  <2>1. AllAssets \in Queries
    BY DEF Queries
  <2> QED
    BY <1>2, <1>a, <2>1, LookIsCurrent, SetReader DEF Snapshot
<1>3. CASE FillCache(r)
  BY <1>3, FillStep
<1>4. ASSUME NEW path \in AssetPaths, SnapshotNext(r, path)
      PROVE  CatalogInv' /\ UNCHANGED Abstract!vars
  <2> DEFINE held == heldBy(reader[r])
  <2>1. <<"asset", path>> \in Queries
    BY DEF Queries, VariantQueries
  <2>2. DOMAIN held \subseteq Queries
    BY DEF heldBy, SetKey, CatalogInv, ReaderTypes
  <2>3. \A p \in DOMAIN held : held[p] = computed(p)
    BY <1>4 DEF SnapshotNext, CatalogInv, ReadsAreCurrent
  <2> HIDE DEF held
  <2>4. ReaderType(look(<<"asset", path>>, TRUE, held)) /\ Current(look(<<"asset", path>>, TRUE, held))
    BY <2>1, <2>2, <2>3, LookIsCurrent
  <2> QED
    BY <1>4, <2>4, SetReader DEF SnapshotNext, held
<1>5. CASE RUnlock(r)
  <2>1. ReaderType(idleReader) /\ idleReader.pc = "idle"
    BY <1>a DEF ReaderType, idleReader, Queries
  <2> QED
    BY <1>5, <2>1, SetReader DEF RUnlock
<1> QED
  BY <1>1, <1>2, <1>3, <1>4, <1>5
-----------------------------------------------------------------------------
(***************************************************************************)
(* CatalogInvStep: every step keeps the invariant and is a step of the abstract   *)
(* catalog or leaves it alone.                                             *)
(***************************************************************************)
LEMMA CatalogInvStep == CatalogInv /\ [Next]_vars => CatalogInv' /\ [Abstract!Next]_(Abstract!vars)
<1> SUFFICES ASSUME CatalogInv, [Next]_vars PROVE CatalogInv' /\ [Abstract!Next]_(Abstract!vars)
  OBVIOUS
<1>1. CASE UNCHANGED vars
  <2>1. (ReaderTypes /\ ReplaceTypes /\ AssetCacheFresh)'
    BY <1>1 DEF vars, CatalogInv, ReaderTypes, ReplaceTypes, AssetCacheFresh, assetList
  <2>2. ReadsAreCurrent'
    <3>1. \A q : computed(q)' = computed(q)
      BY <1>1 DEF vars, computed, assetList
    <3> QED
      BY <1>1, <3>1 DEF vars, CatalogInv, ReadsAreCurrent
  <2>3. (Sound(index) /\ Sound(replace.variants))'
    BY <1>1 DEF vars, CatalogInv
  <2>4. UNCHANGED Abstract!vars
    BY <1>1 DEF vars, Abstract!vars
  <2> QED
    BY <2>1, <2>2, <2>3, <2>4 DEF CatalogInv
<1> QED
  BY <1>1, WriteStep, ReplaceStep, ReadStep DEF Next

(***************************************************************************)
(* IndicesStayInAgreement: for any assets, variants and readers, no        *)
(* history of upserts, collisions, deletions and bulk replacements makes   *)
(* two of the six indices of the variantIndex disagree.                    *)
(***************************************************************************)
THEOREM IndicesStayInAgreement == Spec => []IndicesAgree
<1>1. CatalogInv => IndicesAgree
  BY DEF CatalogInv, Sound, IndicesAgree
<1> QED
  BY <1>1, CatalogInvInit, CatalogInvStep, PTL DEF Spec

(***************************************************************************)
(* CachesStayFresh: no write leaves a cached listing behind that it        *)
(* changes, and no reader stores one that a writer has overtaken.          *)
(***************************************************************************)
THEOREM CachesStayFresh == Spec => []CachesFresh
<1>1. CatalogInv => CachesFresh
  BY DEF CatalogInv, Sound, CachesFresh, AssetCacheFresh
<1> QED
  BY <1>1, CatalogInvInit, CatalogInvStep, PTL DEF Spec

(***************************************************************************)
(* ReadsStayCurrent: all the lists that a reader, Snapshot included, has   *)
(* collected in one RLock section are those of one moment.                 *)
(***************************************************************************)
THEOREM ReadsStayCurrent == Spec => []ReadsAreCurrent
<1>1. CatalogInv => ReadsAreCurrent
  BY DEF CatalogInv
<1> QED
  BY <1>1, CatalogInvInit, CatalogInvStep, PTL DEF Spec

(***************************************************************************)
(* IndexedCatalogImplementsCatalog: the catalog with its indices, caches,  *)
(* locks and readers is the abstract map of assets and set of variants, in *)
(* which an upsert replaces the colliding variants and no other.           *)
(***************************************************************************)
THEOREM IndexedCatalogImplementsCatalog == Spec => Implements
<1>1. Init => Abstract!Init
  BY CatalogInvInit
<1> QED
  BY <1>1, CatalogInvInit, CatalogInvStep, PTL DEF Spec, Implements, Abstract!Spec

-----------------------------------------------------------------------------
(* PreparedService *)

(***************************************************************************)
(* rebuildMu is held exactly by the goroutine inside Rebuild.              *)
(***************************************************************************)
MutexInv == \A p \in Rebuilders : rebuilder[p].pc \in LockedPoints <=> rebuildMu = p

(***************************************************************************)
(* The open roots: the one the list owns, and the one being inserted.      *)
(***************************************************************************)
Inserting == \E p \in Rebuilders : rebuilder[p].pc = "insert"
FilesInv ==
    /\ files.closed => life = "stopped"
    /\ files.root => files.list
    /\ files.open = (IF files.root /\ ~files.closed THEN 1 ELSE 0) + (IF Inserting THEN 1 ELSE 0)

Types == TypeOK /\ events <= cat /\ MutexInv /\ FilesInv

(***************************************************************************)
(* The flags follow the order of stop().                                   *)
(***************************************************************************)
StopInv ==
    /\ stopped <=> life # "started"
    /\ canceled => stopped
    /\ \A w \in Workers : rebuilder[w].pc \in {"clearAgain", "clearRunning"} => stopped
    /\ life \in {"waiting", "cleanup", "stopped"} => canceled
    /\ life \in {"cleanup", "stopped"} =>
         \A w \in Workers : rebuilder[w].pc \in {"idle", "check", "clearAgain", "clearRunning"}

(***************************************************************************)
(* No rebuild holds a version older than the published one.                *)
(***************************************************************************)
VersionInv ==
    /\ snapshot <= cat
    /\ \A p \in Rebuilders :
         rebuilder[p].pc = "store" => snapshot <= rebuilder[p].ver /\ rebuilder[p].ver <= cat

(***************************************************************************)
(* A request for another rebuild is in somebody's hands.                   *)
(***************************************************************************)
AgainInv ==
    again /\ ~running /\ ~stopped =>
        \/ \E h \in Handlers : handler[h] = "cas"
        \/ \E w \in Workers : rebuilder[w].pc \in {"recheck", "retake"}

(***************************************************************************)
(* While the service runs, a catalog change that the snapshot lacks is on  *)
(* its way at some stage.                                                  *)
(***************************************************************************)
OnItsWay ==
    \/ events > 0
    \/ \E h \in Handlers : handler[h] \in {"load", "setAgain"}
    \/ again
    \/ \E p \in Rebuilders : rebuilder[p].pc \in {"lock", "refresh", "insert", "compile"}
    \/ \E p \in Rebuilders : rebuilder[p].pc = "store" /\ rebuilder[p].ver = cat
PendingInv == stopped \/ snapshot = cat \/ OnItsWay

-----------------------------------------------------------------------------
(***************************************************************************)
(* TypesInit: after start() and the first Rebuild the types, the mutex and *)
(* the file sources are as Types says.                                     *)
(***************************************************************************)
LEMMA TypesInit == PreparedInit => Types
<1> SUFFICES ASSUME PreparedInit PROVE Types
  OBVIOUS
<1>1. /\ cat \in 0..MaxChanges /\ snapshot \in 0..MaxChanges /\ events \in 0..MaxChanges
      /\ events <= cat
  BY MaxChangesAssumption DEF PreparedInit
<1>2. rebuilder \in [Rebuilders -> [pc : WorkerPoints, ver : 0..MaxChanges]]
  <2>1. "idle" \in WorkerPoints /\ 0 \in 0..MaxChanges
    BY MaxChangesAssumption DEF WorkerPoints
  <2> QED
    BY <2>1 DEF PreparedInit
<1>3. /\ files \in [list : BOOLEAN, root : BOOLEAN, closed : BOOLEAN, open : Nat]
      /\ files.root = FALSE /\ files.closed = FALSE /\ files.open = 0
  <2>1. PICK b \in BOOLEAN : files = [list |-> b, root |-> FALSE, closed |-> FALSE, open |-> 0]
    BY DEF PreparedInit
  <2> QED
    BY <2>1
<1>4. handler \in [Handlers -> {"idle", "load", "setAgain", "cas", "spawn"}]
  BY DEF PreparedInit
<1>5. TypeOK
  BY <1>1, <1>2, <1>3, <1>4 DEF PreparedInit, TypeOK
<1>6. MutexInv
  BY ProcsAssumption DEF PreparedInit, MutexInv, LockedPoints, Rebuilders
<1>7. ~Inserting
  BY DEF PreparedInit, Inserting
<1>8. FilesInv
  BY <1>3, <1>7 DEF FilesInv
<1> QED
  BY <1>1, <1>5, <1>6, <1>8 DEF Types

(***************************************************************************)
(* The step forms the actions share: a worker moves outside Rebuild, or    *)
(* nothing in Rebuild moves at all.                                        *)
(***************************************************************************)
LEMMA OutsideRebuild ==
    ASSUME Types, NEW p \in Rebuilders, NEW pc \in WorkerPoints \ LockedPoints,
           rebuilder[p].pc \notin LockedPoints, at(p, pc), UNCHANGED <<rebuildMu, files, life>>
    PROVE  /\ rebuilder' \in [Rebuilders -> [pc : WorkerPoints, ver : 0..MaxChanges]]
           /\ MutexInv' /\ FilesInv'
<1>1. rebuilder' \in [Rebuilders -> [pc : WorkerPoints, ver : 0..MaxChanges]]
  BY DEF at, Types, TypeOK
<1>2. \A q \in Rebuilders : q # p => rebuilder'[q] = rebuilder[q]
  BY DEF at, Types, TypeOK
<1>3. rebuilder'[p].pc = pc
  BY DEF at, Types, TypeOK
<1>4. MutexInv'
  BY <1>2, <1>3 DEF MutexInv, Types
<1>5. Inserting' <=> Inserting
  BY <1>2, <1>3 DEF Inserting, LockedPoints
<1>6. FilesInv'
  BY <1>5 DEF FilesInv, Types
<1> QED
  BY <1>1, <1>4, <1>6

(***************************************************************************)
(* TypesStep: no step of a handler, a rebuild or stop() breaks the types,  *)
(* the exclusion by rebuildMu or the count of open roots.                  *)
(***************************************************************************)
LEMMA TypesStep == Types /\ [PreparedNext]_preparedVars => Types'
<1> SUFFICES ASSUME Types, [PreparedNext]_preparedVars PROVE Types'
  OBVIOUS
<1> USE MaxChangesAssumption DEF coalescer
<1>1. CASE ChangeCatalog
  BY <1>1 DEF ChangeCatalog, Types, TypeOK, MutexInv, FilesInv, Inserting
<1>2. ASSUME NEW h \in Handlers, Deliver(h) PROVE Types'
  BY <1>2 DEF Deliver, Types, TypeOK, MutexInv, FilesInv, Inserting
<1>3. ASSUME NEW h \in Handlers, LoadStopped(h) PROVE Types'
  BY <1>3 DEF LoadStopped, Types, TypeOK, MutexInv, FilesInv, Inserting
<1>4. ASSUME NEW h \in Handlers, SetAgain(h) PROVE Types'
  BY <1>4 DEF SetAgain, Types, TypeOK, MutexInv, FilesInv, Inserting
<1>5. ASSUME NEW h \in Handlers, TakeRunning(h) PROVE Types'
  BY <1>5 DEF TakeRunning, Types, TypeOK, MutexInv, FilesInv, Inserting
<1>6. ASSUME NEW h \in Handlers, NEW w \in Workers, SpawnWorker(h, w) PROVE Types'
  <2>1. /\ rebuilder' \in [Rebuilders -> [pc : WorkerPoints, ver : 0..MaxChanges]]
        /\ MutexInv' /\ FilesInv'
    BY <1>6, OutsideRebuild DEF SpawnWorker, Rebuilders, WorkerPoints, OwnerPoints, LockedPoints
  <2> QED
    BY <1>6, <2>1 DEF SpawnWorker, Types, TypeOK
<1>7. ASSUME NEW w \in Workers, WorkerSteps(w) PROVE Types'
  <2>1. PICK pc \in WorkerPoints \ LockedPoints :
           rebuilder[w].pc \notin LockedPoints /\ at(w, pc) /\ UNCHANGED <<rebuildMu, files, life>>
    BY <1>7 DEF WorkerSteps, CheckStopped, ClearAgain, ClearRunning, SwapAgain, ReleaseRunning,
                RecheckAgain, RetakeRunning, WorkerPoints, OwnerPoints, RebuildPoints, LockedPoints
  <2>2. /\ rebuilder' \in [Rebuilders -> [pc : WorkerPoints, ver : 0..MaxChanges]]
        /\ MutexInv' /\ FilesInv'
    BY <2>1, OutsideRebuild DEF Rebuilders
  <2>3. running' \in BOOLEAN /\ again' \in BOOLEAN
        /\ UNCHANGED <<cat, snapshot, events, rebuildMu, stopped, canceled, handler, life, files>>
    BY <1>7 DEF WorkerSteps, CheckStopped, ClearAgain, ClearRunning, SwapAgain, ReleaseRunning,
                RecheckAgain, RetakeRunning, Types, TypeOK
  <2> QED
    BY <2>2, <2>3 DEF Types, TypeOK
<1>8. ASSUME NEW p \in Rebuilders, LockRebuild(p) PROVE Types'
  <2>1. /\ rebuilder' \in [Rebuilders -> [pc : WorkerPoints, ver : 0..MaxChanges]]
        /\ \A q \in Rebuilders : q # p => rebuilder'[q] = rebuilder[q]
        /\ rebuilder'[p].pc = "refresh" /\ rebuilder[p].pc = "lock"
        /\ rebuildMu = NoProc /\ rebuildMu' = p
    BY <1>8 DEF LockRebuild, at, Types, TypeOK, WorkerPoints, OwnerPoints, RebuildPoints, LockedPoints
  <2>2. MutexInv'
    BY <2>1, ProcsAssumption DEF MutexInv, Types, LockedPoints, Rebuilders
  <2>3. Inserting' <=> Inserting
    BY <2>1 DEF Inserting
  <2> QED
    BY <1>8, <2>1, <2>2, <2>3 DEF LockRebuild, Types, TypeOK, FilesInv
<1>9. ASSUME NEW p \in Rebuilders, RefreshFiles(p) PROVE Types'
  <2>1. /\ rebuilder' \in [Rebuilders -> [pc : WorkerPoints, ver : 0..MaxChanges]]
        /\ \A q \in Rebuilders : q # p => rebuilder'[q] = rebuilder[q]
        /\ rebuilder[p].pc = "refresh" /\ rebuilder'[p].pc \in {"compile", "insert"}
        /\ UNCHANGED rebuildMu
    BY <1>9 DEF RefreshFiles, at, Types, TypeOK, WorkerPoints, OwnerPoints, RebuildPoints, LockedPoints
  <2>2. rebuildMu = p /\ \A q \in Rebuilders : q # p => rebuilder[q].pc \notin LockedPoints
    BY <2>1 DEF Types, MutexInv, LockedPoints
  <2>3. MutexInv'
    BY <2>1, <2>2 DEF MutexInv, Types, LockedPoints
  <2>4. ~Inserting /\ (Inserting' <=> rebuilder'[p].pc = "insert")
    BY <2>1, <2>2 DEF Inserting, LockedPoints
  <2>5. CASE at(p, "compile") /\ UNCHANGED files
    <3>1. rebuilder'[p].pc = "compile"
      BY <2>5 DEF at, Types, TypeOK
    <3> QED
      BY <1>9, <2>1, <2>3, <2>4, <2>5, <3>1 DEF RefreshFiles, Types, TypeOK, FilesInv
  <2>6. CASE ~files.root /\ files' = [files EXCEPT !.open = @ + 1] /\ at(p, "insert")
    <3>1. rebuilder'[p].pc = "insert"
      BY <2>6 DEF at, Types, TypeOK
    <3> QED
      BY <1>9, <2>1, <2>3, <2>4, <2>6, <3>1 DEF RefreshFiles, Types, TypeOK, FilesInv
  <2> QED
    BY <1>9, <2>5, <2>6 DEF RefreshFiles
<1>10. ASSUME NEW p \in Rebuilders, InsertRoot(p) PROVE Types'
  <2>1. /\ rebuilder' \in [Rebuilders -> [pc : WorkerPoints, ver : 0..MaxChanges]]
        /\ \A q \in Rebuilders : q # p => rebuilder'[q] = rebuilder[q]
        /\ rebuilder[p].pc = "insert" /\ rebuilder'[p].pc = "compile"
        /\ UNCHANGED rebuildMu
    BY <1>10 DEF InsertRoot, at, Types, TypeOK, WorkerPoints, OwnerPoints, RebuildPoints, LockedPoints
  <2>2. rebuildMu = p /\ \A q \in Rebuilders : q # p => rebuilder[q].pc \notin LockedPoints
    BY <2>1 DEF Types, MutexInv, LockedPoints
  <2>3. MutexInv'
    BY <2>1, <2>2 DEF MutexInv, Types, LockedPoints
  <2>4. Inserting /\ ~Inserting'
    BY <2>1, <2>2 DEF Inserting, LockedPoints
  <2>5. files' \in [list : BOOLEAN, root : BOOLEAN, closed : BOOLEAN, open : Nat] /\ FilesInv'
    <3> USE <1>10, <2>4 DEF InsertRoot, Types, TypeOK, FilesInv
    <3>1. CASE files.closed \/ files.root
      <4>1. files' = [files EXCEPT !.open = files.open - 1] /\ UNCHANGED life
        BY <3>1
      <4>2. files.open \in Nat /\ files.open >= 1
        OBVIOUS
      <4> QED
        BY <4>1, <4>2
    <3>2. CASE ~(files.closed \/ files.root)
      <4>1. files' = [files EXCEPT !.root = TRUE, !.list = TRUE] /\ UNCHANGED life
        BY <3>2
      <4>2. /\ files'.root = TRUE /\ files'.list = TRUE
            /\ files'.closed = files.closed /\ files'.open = files.open
            /\ files' \in [list : BOOLEAN, root : BOOLEAN, closed : BOOLEAN, open : Nat]
        BY <4>1
      <4>3. files.open = 1 /\ files.closed = FALSE
        BY <3>2
      <4> QED
        BY <2>4, <4>1, <4>2, <4>3
    <3> QED
      BY <3>1, <3>2
  <2> QED
    BY <1>10, <2>1, <2>3, <2>5 DEF InsertRoot, Types, TypeOK
<1>11. ASSUME NEW p \in Rebuilders, Compile(p) \/ StoreSnapshot(p) PROVE Types'
  <2>1. /\ rebuilder' \in [Rebuilders -> [pc : WorkerPoints, ver : 0..MaxChanges]]
        /\ \A q \in Rebuilders : q # p => rebuilder'[q] = rebuilder[q]
        /\ rebuilder[p].pc \in {"compile", "store"}
        /\ \/ rebuilder'[p].pc = "store" /\ UNCHANGED rebuildMu
           \/ rebuilder'[p].pc = returnTo(p) /\ rebuildMu' = NoProc
        /\ snapshot' \in 0..MaxChanges
    <3> USE DEF returnTo, at, Types, TypeOK, WorkerPoints, OwnerPoints, RebuildPoints, LockedPoints
    <3>1. CASE Compile(p) /\ p \in Workers /\ canceled
      BY <3>1 DEF Compile
    <3>2. CASE Compile(p) /\ ~(p \in Workers /\ canceled)
      BY <3>2 DEF Compile
    <3>3. CASE StoreSnapshot(p)
      BY <3>3 DEF StoreSnapshot
    <3> QED
      BY <1>11, <3>1, <3>2, <3>3
  <2>2. rebuildMu = p /\ \A q \in Rebuilders : q # p => rebuilder[q].pc \notin LockedPoints
    BY <2>1 DEF Types, MutexInv, LockedPoints
  <2>3. MutexInv'
    BY <2>1, <2>2, ProcsAssumption DEF MutexInv, Types, LockedPoints, returnTo, Rebuilders
  <2>4. Inserting' <=> Inserting
    BY <2>1 DEF Inserting, returnTo
  <2>5. rebuildMu' \in Rebuilders \cup {NoProc}
    BY <2>1, <2>2
  <2>6. UNCHANGED <<cat, events, running, again, stopped, canceled, handler, life, files>>
    BY <1>11 DEF Compile, StoreSnapshot
  <2> QED
    BY <2>1, <2>3, <2>4, <2>5, <2>6 DEF Types, TypeOK, FilesInv
<1>12. ASSUME NEW d \in Deleters, DeleteVariantArtifact(d) PROVE Types'
  <2>1. /\ rebuilder' \in [Rebuilders -> [pc : WorkerPoints, ver : 0..MaxChanges]]
        /\ MutexInv' /\ FilesInv'
    BY <1>12, OutsideRebuild
       DEF DeleteVariantArtifact, Rebuilders, WorkerPoints, OwnerPoints, RebuildPoints, LockedPoints
  <2> QED
    BY <1>12, <2>1 DEF DeleteVariantArtifact, Types, TypeOK
<1>13. CASE StopRebuilds \/ Unsubscribe \/ CancelLifecycle \/ WorkersGone \/ WaitTimesOut
  <2>1. /\ UNCHANGED <<cat, snapshot, events, rebuildMu, running, again, handler, rebuilder, files>>
        /\ life # "stopped" /\ life' \in {"stopping", "unsubscribed", "waiting", "cleanup", "timedout"}
    BY <1>13 DEF StopRebuilds, Unsubscribe, CancelLifecycle, WorkersGone, WaitTimesOut
  <2>2. stopped' \in BOOLEAN /\ canceled' \in BOOLEAN
    BY <1>13 DEF StopRebuilds, Unsubscribe, CancelLifecycle, WorkersGone, WaitTimesOut, Types, TypeOK
  <2> QED
    BY <2>1, <2>2 DEF Types, TypeOK, MutexInv, FilesInv, Inserting
<1>14. CASE CleanupFiles
  <2>1. /\ UNCHANGED <<cat, snapshot, events, rebuildMu, running, again, stopped, canceled>>
        /\ UNCHANGED <<handler, rebuilder>>
        /\ life = "cleanup" /\ life' = "stopped"
    BY <1>14 DEF CleanupFiles
  <2>2. Inserting' <=> Inserting
    BY <2>1 DEF Inserting
  <2>3. files' \in [list : BOOLEAN, root : BOOLEAN, closed : BOOLEAN, open : Nat] /\ FilesInv'
    <3>1. CASE files.list /\ files.root
      <4>1. files' = [files EXCEPT !.closed = TRUE, !.open = files.open - 1]
        BY <1>14, <3>1 DEF CleanupFiles
      <4>2. files.open \in Nat /\ files.closed = FALSE
            /\ files.open = 1 + (IF Inserting THEN 1 ELSE 0)
        BY <2>1, <3>1 DEF Types, TypeOK, FilesInv
      <4>3. /\ files'.root = files.root /\ files'.list = files.list
            /\ files'.closed = TRUE /\ files'.open = files.open - 1
        BY <4>1 DEF Types, TypeOK
      <4>4. files' \in [list : BOOLEAN, root : BOOLEAN, closed : BOOLEAN, open : Nat]
        <5>1. files.open - 1 \in Nat
          BY <4>2
        <5> QED
          BY <4>1, <5>1 DEF Types, TypeOK
      <4> QED
        BY <2>1, <2>2, <3>1, <4>2, <4>3, <4>4 DEF FilesInv
    <3>3. CASE files.list /\ ~files.root
      <4>1. files' = [files EXCEPT !.closed = TRUE, !.open = files.open]
        BY <1>14, <3>3 DEF CleanupFiles
      <4>2. /\ files'.root = files.root /\ files'.list = files.list
            /\ files'.closed = TRUE /\ files'.open = files.open
            /\ files' \in [list : BOOLEAN, root : BOOLEAN, closed : BOOLEAN, open : Nat]
        BY <4>1 DEF Types, TypeOK
      <4> QED
        BY <4>2, <2>1, <2>2, <3>3 DEF Types, TypeOK, FilesInv
    <3>2. CASE ~files.list
      BY <1>14, <2>1, <2>2, <3>2 DEF CleanupFiles, Types, TypeOK, FilesInv
    <3> QED
      BY <3>1, <3>2, <3>3
  <2> QED
    BY <2>1, <2>3 DEF Types, TypeOK, MutexInv
<1>15. CASE UNCHANGED preparedVars
  BY <1>15 DEF preparedVars, Types, TypeOK, MutexInv, FilesInv, Inserting
<1> QED
  BY <1>1, <1>2, <1>3, <1>4, <1>5, <1>6, <1>7, <1>8, <1>9, <1>10, <1>11, <1>12, <1>13,
     <1>14, <1>15 DEF PreparedNext, HandlerSteps, RebuildSteps, StopSteps

(***************************************************************************)
(* PreparedIsTyped: TypeOK holds for every number of goroutines and changes.   *)
(***************************************************************************)
THEOREM PreparedIsTyped == PreparedSpec => []TypeOK
<1>1. Types => TypeOK
  BY DEF Types
<1> QED
  BY <1>1, TypesInit, TypesStep, PTL DEF PreparedSpec

(***************************************************************************)
(* RootsAreReleased: Cleanup and a Rebuild that opens a root while Cleanup *)
(* runs never leave the root open between them.                            *)
(***************************************************************************)
THEOREM RootsAreReleased == PreparedSpec => []SourcesReleased
<1>1. Types => SourcesReleased
  BY DEF Types, TypeOK, FilesInv, Inserting, SourcesReleased
<1> QED
  BY <1>1, TypesInit, TypesStep, PTL DEF PreparedSpec

-----------------------------------------------------------------------------
(***************************************************************************)
(* StopInvInit: no flag of stop() is set after start().                    *)
(***************************************************************************)
LEMMA StopInvInit == PreparedInit => StopInv
  BY DEF PreparedInit, StopInv, Rebuilders

(***************************************************************************)
(* StopInvStep: every step keeps the order of stop() (flag, unsubscribe,   *)
(* cancel, wait, clean up) visible in the flags.                           *)
(***************************************************************************)
LEMMA StopInvStep == Types /\ StopInv /\ [PreparedNext]_preparedVars => StopInv'
<1> SUFFICES ASSUME Types, StopInv, [PreparedNext]_preparedVars PROVE StopInv'
  OBVIOUS
<1> USE DEF Types, TypeOK, StopInv, coalescer, at, Rebuilders
<1>1. CASE ChangeCatalog
  BY <1>1 DEF ChangeCatalog
<1>2. ASSUME NEW h \in Handlers, Deliver(h) \/ LoadStopped(h) \/ SetAgain(h) \/ TakeRunning(h)
      PROVE StopInv'
  BY <1>2 DEF Deliver, LoadStopped, SetAgain, TakeRunning
<1>3. ASSUME NEW h \in Handlers, NEW w \in Workers, SpawnWorker(h, w) PROVE StopInv'
  BY <1>3 DEF SpawnWorker
<1>4. ASSUME NEW w \in Workers, CheckStopped(w) PROVE StopInv'
  BY <1>4 DEF CheckStopped
<1>5. ASSUME NEW w \in Workers, ClearAgain(w) \/ ClearRunning(w) PROVE StopInv'
  BY <1>5 DEF ClearAgain, ClearRunning
<1>6. ASSUME NEW w \in Workers, SwapAgain(w) PROVE StopInv'
  BY <1>6 DEF SwapAgain
<1>7. ASSUME NEW w \in Workers, ReleaseRunning(w) \/ RecheckAgain(w) \/ RetakeRunning(w) PROVE StopInv'
  BY <1>7 DEF ReleaseRunning, RecheckAgain, RetakeRunning
<1>8. ASSUME NEW p \in Rebuilders, LockRebuild(p) \/ RefreshFiles(p) \/ InsertRoot(p) PROVE StopInv'
  BY <1>8 DEF LockRebuild, RefreshFiles, InsertRoot
<1>9. ASSUME NEW p \in Rebuilders, Compile(p) \/ StoreSnapshot(p) PROVE StopInv'
  BY <1>9 DEF Compile, StoreSnapshot, returnTo
<1>10. ASSUME NEW d \in Deleters, DeleteVariantArtifact(d) PROVE StopInv'
  BY <1>10, ProcsAssumption DEF DeleteVariantArtifact
<1>11. CASE StopRebuilds \/ Unsubscribe \/ CancelLifecycle
  <2>1. CASE StopRebuilds
    BY <2>1 DEF StopRebuilds
  <2>2. CASE Unsubscribe
    BY <2>2 DEF Unsubscribe
  <2>3. CASE CancelLifecycle
    BY <2>3 DEF CancelLifecycle
  <2> QED
    BY <1>11, <2>1, <2>2, <2>3
<1>12. CASE WorkersGone \/ WaitTimesOut \/ CleanupFiles
  <2>1. CASE WorkersGone
    BY <2>1 DEF WorkersGone
  <2>2. CASE WaitTimesOut
    BY <2>2 DEF WaitTimesOut
  <2>3. CASE CleanupFiles
    BY <2>3 DEF CleanupFiles
  <2> QED
    BY <1>12, <2>1, <2>2, <2>3
<1>13. CASE UNCHANGED preparedVars
  BY <1>13 DEF preparedVars
<1> QED
  BY <1>1, <1>2, <1>3, <1>4, <1>5, <1>6, <1>7, <1>8, <1>9, <1>10, <1>11, <1>12, <1>13
     DEF PreparedNext, HandlerSteps, WorkerSteps, RebuildSteps, StopSteps

(***************************************************************************)
(* StopEndsRebuilds: after stop() has returned without an error no worker  *)
(* rebuilds, not even one that a late event handler started.               *)
(***************************************************************************)
THEOREM StopEndsRebuilds == PreparedSpec => []NoRebuildAfterStop
<1> DEFINE Inv == Types /\ StopInv
<1>1. PreparedInit => Inv
  BY TypesInit, StopInvInit
<1>2. Inv /\ [PreparedNext]_preparedVars => Inv'
  BY TypesStep, StopInvStep
<1>3. Inv => NoRebuildAfterStop
  BY DEF StopInv, NoRebuildAfterStop, RebuildPoints, LockedPoints
<1> QED
  BY <1>1, <1>2, <1>3, PTL DEF PreparedSpec

-----------------------------------------------------------------------------
(***************************************************************************)
(* VersionInvInit: the first snapshot shows the catalog.                   *)
(***************************************************************************)
LEMMA VersionInvInit == PreparedInit => VersionInv
  BY DEF PreparedInit, VersionInv

(***************************************************************************)
(* VersionInvStep: every step keeps a compiled version between the         *)
(* published one and the catalog's, and moves the published one forward    *)
(* only.                                                                   *)
(***************************************************************************)
LEMMA VersionInvStep == Types /\ VersionInv /\ [PreparedNext]_preparedVars => VersionInv' /\ snapshot' >= snapshot
<1> SUFFICES ASSUME Types, VersionInv, [PreparedNext]_preparedVars PROVE VersionInv' /\ snapshot' >= snapshot
  OBVIOUS
<1> DEFINE Goal == VersionInv' /\ snapshot' >= snapshot
<1> USE DEF Types, TypeOK, VersionInv, coalescer, at, Rebuilders
<1>1. CASE ChangeCatalog
  BY <1>1 DEF ChangeCatalog
<1>2. ASSUME NEW h \in Handlers, Deliver(h) \/ LoadStopped(h) \/ SetAgain(h) \/ TakeRunning(h)
      PROVE Goal
  BY <1>2 DEF Deliver, LoadStopped, SetAgain, TakeRunning
<1>3. ASSUME NEW h \in Handlers, NEW w \in Workers, SpawnWorker(h, w) PROVE Goal
  BY <1>3 DEF SpawnWorker
<1>4. ASSUME NEW w \in Workers, WorkerSteps(w) PROVE Goal
  <2>1. PICK pc \in WorkerPoints \ LockedPoints : at(w, pc)
    BY <1>4 DEF WorkerSteps, CheckStopped, ClearAgain, ClearRunning, SwapAgain, ReleaseRunning,
                RecheckAgain, RetakeRunning, WorkerPoints, OwnerPoints, RebuildPoints, LockedPoints
  <2>2. UNCHANGED <<cat, snapshot>>
    BY <1>4 DEF WorkerSteps, CheckStopped, ClearAgain, ClearRunning, SwapAgain, ReleaseRunning,
                RecheckAgain, RetakeRunning
  <2> QED
    BY <2>1, <2>2 DEF LockedPoints
<1>5. ASSUME NEW p \in Rebuilders, LockRebuild(p) \/ RefreshFiles(p) \/ InsertRoot(p) PROVE Goal
  BY <1>5 DEF LockRebuild, RefreshFiles, InsertRoot
<1>6. ASSUME NEW p \in Rebuilders, Compile(p) PROVE Goal
  BY <1>6 DEF Compile, returnTo
<1>7. ASSUME NEW p \in Rebuilders, StoreSnapshot(p) PROVE Goal
  <2>1. \A q \in Rebuilders : q # p => rebuilder[q].pc # "store"
    BY <1>7 DEF StoreSnapshot, MutexInv, LockedPoints
  <2>2. \A q \in Rebuilders : rebuilder'[q].pc # "store"
    BY <1>7, <2>1 DEF StoreSnapshot, returnTo
  <2>3. snapshot' = rebuilder[p].ver /\ snapshot <= rebuilder[p].ver /\ rebuilder[p].ver <= cat /\ cat' = cat
    BY <1>7 DEF StoreSnapshot
  <2> QED
    BY <2>2, <2>3
<1>8. ASSUME NEW d \in Deleters, DeleteVariantArtifact(d) PROVE Goal
  BY <1>8 DEF DeleteVariantArtifact
<1>9. CASE StopRebuilds \/ StopSteps \/ WaitTimesOut
  BY <1>9 DEF StopRebuilds, StopSteps, Unsubscribe, CancelLifecycle, WorkersGone, WaitTimesOut, CleanupFiles
<1>10. CASE UNCHANGED preparedVars
  BY <1>10 DEF preparedVars
<1> QED
  BY <1>1, <1>2, <1>3, <1>4, <1>5, <1>6, <1>7, <1>8, <1>9, <1>10 DEF PreparedNext, HandlerSteps, RebuildSteps

(***************************************************************************)
(* SnapshotOnlyAdvances: however workers and requests rebuild side by      *)
(* side, a published snapshot is never replaced by an older one, because   *)
(* the catalog is read and the result stored under one rebuildMu section.  *)
(***************************************************************************)
THEOREM SnapshotOnlyAdvances == PreparedSpec => SnapshotNeverGoesBack
<1> DEFINE Inv == Types /\ VersionInv
<1>1. PreparedInit => Inv
  BY TypesInit, VersionInvInit
<1>2. Inv /\ [PreparedNext]_preparedVars => Inv'
  BY TypesStep, VersionInvStep
<1>3. Inv /\ [PreparedNext]_preparedVars => [snapshot' >= snapshot]_preparedVars
  BY VersionInvStep
<1> QED
  BY <1>1, <1>2, <1>3, PTL DEF PreparedSpec, SnapshotNeverGoesBack

-----------------------------------------------------------------------------
(***************************************************************************)
(* The coalescer.  Holder(p): p owns the worker role.                      *)
(***************************************************************************)
HandlerHolds(h) == handler[h] = "spawn"
WorkerHolds(w) == rebuilder[w].pc \in OwnerPoints
RoleInv ==
    /\ \A g, h \in Handlers : HandlerHolds(g) /\ HandlerHolds(h) => g = h
    /\ \A v, w \in Workers : WorkerHolds(v) /\ WorkerHolds(w) => v = w
    /\ \A h \in Handlers, w \in Workers : ~(HandlerHolds(h) /\ WorkerHolds(w))
    /\ running <=> (\E h \in Handlers : HandlerHolds(h)) \/ (\E w \in Workers : WorkerHolds(w))

(***************************************************************************)
(* RoleInvInit: nobody owns the worker role after start().                 *)
(***************************************************************************)
LEMMA RoleInvInit == PreparedInit => RoleInv
  BY DEF PreparedInit, RoleInv, HandlerHolds, WorkerHolds, OwnerPoints, RebuildPoints, LockedPoints, Rebuilders

(***************************************************************************)
(* RoleUnmoved: a step after which the same goroutines hold the role, and  *)
(* that leaves rebuildWorkerRunning alone, keeps RoleInv.                  *)
(***************************************************************************)
LEMMA RoleUnmoved ==
    ASSUME RoleInv, UNCHANGED running,
           \A h \in Handlers : HandlerHolds(h)' <=> HandlerHolds(h),
           \A w \in Workers : WorkerHolds(w)' <=> WorkerHolds(w)
    PROVE  RoleInv'
  BY DEF RoleInv

(***************************************************************************)
(* RoleInvStep: the compare-and-swaps of rebuildAsync and of               *)
(* releaseRebuildWorker keep one owner of the role at most.                *)
(***************************************************************************)
LEMMA RoleInvStep == Types /\ RoleInv /\ [PreparedNext]_preparedVars => RoleInv'
<1> SUFFICES ASSUME Types, RoleInv, [PreparedNext]_preparedVars PROVE RoleInv'
  OBVIOUS
<1> USE DEF Types, TypeOK, coalescer, at
<1>1. CASE ChangeCatalog \/ StopRebuilds \/ StopSteps \/ WaitTimesOut \/ UNCHANGED preparedVars
  BY <1>1, RoleUnmoved DEF ChangeCatalog, StopRebuilds, StopSteps, Unsubscribe, CancelLifecycle,
     WorkersGone, WaitTimesOut, CleanupFiles, preparedVars, HandlerHolds, WorkerHolds
<1>2. ASSUME NEW h \in Handlers, Deliver(h) \/ LoadStopped(h) \/ SetAgain(h) PROVE RoleInv'
  BY <1>2, RoleUnmoved DEF Deliver, LoadStopped, SetAgain, HandlerHolds, WorkerHolds
<1>3. ASSUME NEW h \in Handlers, TakeRunning(h) PROVE RoleInv'
  BY <1>3 DEF TakeRunning, RoleInv, HandlerHolds, WorkerHolds
<1>4. ASSUME NEW h \in Handlers, NEW w \in Workers, SpawnWorker(h, w) PROVE RoleInv'
  <2>1. /\ HandlerHolds(h) /\ ~HandlerHolds(h)' /\ ~WorkerHolds(w) /\ WorkerHolds(w)'
        /\ \A g \in Handlers : g # h => (HandlerHolds(g)' <=> HandlerHolds(g))
        /\ \A v \in Workers : v # w => (WorkerHolds(v)' <=> WorkerHolds(v))
        /\ UNCHANGED running
    BY <1>4 DEF SpawnWorker, HandlerHolds, WorkerHolds, OwnerPoints, RebuildPoints, LockedPoints, Rebuilders
  <2> QED
    BY <2>1 DEF RoleInv
<1>5. ASSUME NEW w \in Workers, CheckStopped(w) \/ ClearAgain(w) \/ SwapAgain(w) \/ RecheckAgain(w)
      PROVE RoleInv'
  BY <1>5, RoleUnmoved DEF CheckStopped, ClearAgain, SwapAgain, RecheckAgain, HandlerHolds, WorkerHolds,
     OwnerPoints, RebuildPoints, LockedPoints, Rebuilders
<1>6. ASSUME NEW w \in Workers, ClearRunning(w) \/ ReleaseRunning(w) PROVE RoleInv'
  <2>1. /\ WorkerHolds(w) /\ ~WorkerHolds(w)'
        /\ \A g \in Handlers : HandlerHolds(g)' <=> HandlerHolds(g)
        /\ \A v \in Workers : v # w => (WorkerHolds(v)' <=> WorkerHolds(v))
        /\ running' = FALSE
    BY <1>6 DEF ClearRunning, ReleaseRunning, HandlerHolds, WorkerHolds, OwnerPoints, RebuildPoints,
                LockedPoints, Rebuilders
  <2> QED
    BY <2>1 DEF RoleInv
<1>7. ASSUME NEW w \in Workers, RetakeRunning(w) PROVE RoleInv'
  <2>1. /\ ~WorkerHolds(w) /\ (WorkerHolds(w)' <=> ~running)
        /\ \A g \in Handlers : HandlerHolds(g)' <=> HandlerHolds(g)
        /\ \A v \in Workers : v # w => (WorkerHolds(v)' <=> WorkerHolds(v))
        /\ running' = TRUE
    BY <1>7 DEF RetakeRunning, HandlerHolds, WorkerHolds, OwnerPoints, RebuildPoints, LockedPoints, Rebuilders
  <2> QED
    BY <2>1 DEF RoleInv
<1>8. ASSUME NEW p \in Rebuilders, RebuildSteps(p) PROVE RoleInv'
  <2>1. \A w \in Workers : WorkerHolds(w)' <=> WorkerHolds(w)
    BY <1>8 DEF RebuildSteps, LockRebuild, RefreshFiles, InsertRoot, Compile, StoreSnapshot, returnTo,
       WorkerHolds, OwnerPoints, RebuildPoints, LockedPoints, Rebuilders
  <2>2. UNCHANGED <<running, handler>>
    BY <1>8 DEF RebuildSteps, LockRebuild, RefreshFiles, InsertRoot, Compile, StoreSnapshot
  <2> QED
    BY <2>1, <2>2, RoleUnmoved DEF HandlerHolds
<1>9. ASSUME NEW d \in Deleters, DeleteVariantArtifact(d) PROVE RoleInv'
  BY <1>9, RoleUnmoved, ProcsAssumption DEF DeleteVariantArtifact, HandlerHolds, WorkerHolds, Rebuilders
<1> QED
  BY <1>1, <1>2, <1>3, <1>4, <1>5, <1>6, <1>7, <1>8, <1>9 DEF PreparedNext, HandlerSteps, WorkerSteps

(***************************************************************************)
(* AtMostOneWorker: rebuildWorkerRunning is set exactly while one handler  *)
(* or worker owns the worker role, and there are never two owners.         *)
(***************************************************************************)
THEOREM AtMostOneWorker == PreparedSpec => []OneRebuildWorker
<1> DEFINE Inv == Types /\ RoleInv
<1>1. PreparedInit => Inv
  BY TypesInit, RoleInvInit
<1>2. Inv /\ [PreparedNext]_preparedVars => Inv'
  BY TypesStep, RoleInvStep
<1>3. Inv => OneRebuildWorker
  BY DEF RoleInv, OneRebuildWorker, Owners, HandlerHolds, WorkerHolds
<1> QED
  BY <1>1, <1>2, <1>3, PTL DEF PreparedSpec

(***************************************************************************)
(* WorkersKeepDiscipline: the coalescer and stop() together admit one      *)
(* background worker, and none after stop() has returned without an error. *)
(***************************************************************************)
THEOREM WorkersKeepDiscipline == PreparedSpec => []WorkerDiscipline
<1>1. OneRebuildWorker /\ NoRebuildAfterStop => WorkerDiscipline
  BY DEF WorkerDiscipline
<1> QED
  BY <1>1, AtMostOneWorker, StopEndsRebuilds, PTL

-----------------------------------------------------------------------------
(***************************************************************************)
(* AgainInvStep: rebuildAgain is never left set for nobody: a handler      *)
(* about to compete for the role, or a worker about to look again, will    *)
(* see it.                                                                 *)
(***************************************************************************)
LEMMA AgainInvStep == Types /\ StopInv /\ AgainInv /\ [PreparedNext]_preparedVars => AgainInv'
<1> SUFFICES ASSUME Types, StopInv, AgainInv, [PreparedNext]_preparedVars PROVE AgainInv'
  OBVIOUS
<1> USE DEF Types, TypeOK, AgainInv, coalescer, at, Rebuilders
<1>1. CASE ChangeCatalog \/ StopRebuilds \/ StopSteps \/ WaitTimesOut \/ UNCHANGED preparedVars
  BY <1>1 DEF ChangeCatalog, StopRebuilds, StopSteps, Unsubscribe, CancelLifecycle,
     WorkersGone, WaitTimesOut, CleanupFiles, preparedVars
<1>2. ASSUME NEW h \in Handlers, Deliver(h) \/ LoadStopped(h) PROVE AgainInv'
  BY <1>2 DEF Deliver, LoadStopped
<1>3. ASSUME NEW h \in Handlers, SetAgain(h) \/ TakeRunning(h) PROVE AgainInv'
  BY <1>3 DEF SetAgain, TakeRunning
<1>4. ASSUME NEW h \in Handlers, NEW w \in Workers, SpawnWorker(h, w) PROVE AgainInv'
  BY <1>4 DEF SpawnWorker
<1>5. ASSUME NEW w \in Workers, CheckStopped(w) \/ ClearAgain(w) \/ SwapAgain(w) PROVE AgainInv'
  BY <1>5 DEF CheckStopped, ClearAgain, SwapAgain
<1>6. ASSUME NEW w \in Workers, ClearRunning(w) PROVE AgainInv'
  BY <1>6 DEF ClearRunning, StopInv
<1>7. ASSUME NEW w \in Workers, ReleaseRunning(w) \/ RecheckAgain(w) \/ RetakeRunning(w)
      PROVE AgainInv'
  <2>1. CASE ReleaseRunning(w)
    BY <2>1 DEF ReleaseRunning, WorkerPoints
  <2>2. CASE RecheckAgain(w)
    BY <2>2 DEF RecheckAgain, WorkerPoints
  <2>3. CASE RetakeRunning(w)
    BY <2>3 DEF RetakeRunning
  <2> QED
    BY <1>7, <2>1, <2>2, <2>3
<1>8. ASSUME NEW p \in Rebuilders, RebuildSteps(p) PROVE AgainInv'
  <2>1. \A w \in Workers : rebuilder[w].pc \in {"recheck", "retake"} => rebuilder'[w] = rebuilder[w]
    BY <1>8 DEF RebuildSteps, LockRebuild, RefreshFiles, InsertRoot, Compile, StoreSnapshot
  <2>2. UNCHANGED <<running, again, stopped, handler>>
    BY <1>8 DEF RebuildSteps, LockRebuild, RefreshFiles, InsertRoot, Compile, StoreSnapshot
  <2> QED
    BY <2>1, <2>2
<1>9. ASSUME NEW d \in Deleters, DeleteVariantArtifact(d) PROVE AgainInv'
  BY <1>9 DEF DeleteVariantArtifact
<1> QED
  BY <1>1, <1>2, <1>3, <1>4, <1>5, <1>6, <1>7, <1>8, <1>9 DEF PreparedNext, HandlerSteps, WorkerSteps

(***************************************************************************)
(* PendingInvStep: a change that the snapshot lacks moves from event to    *)
(* handler to flag to rebuild and is at no step dropped between them,      *)
(* except by stop().                                                       *)
(***************************************************************************)
LEMMA PendingInvStep ==
    Types /\ StopInv /\ VersionInv /\ PendingInv /\ [PreparedNext]_preparedVars => PendingInv'
<1> SUFFICES ASSUME Types, StopInv, VersionInv, PendingInv, [PreparedNext]_preparedVars PROVE PendingInv'
  OBVIOUS
<1> USE DEF Types, TypeOK, PendingInv, OnItsWay, coalescer, at, Rebuilders
<1>1. CASE ChangeCatalog
  BY <1>1 DEF ChangeCatalog
<1>2. CASE StopRebuilds \/ StopSteps \/ WaitTimesOut \/ UNCHANGED preparedVars
  BY <1>2 DEF StopRebuilds, StopSteps, Unsubscribe, CancelLifecycle,
     WorkersGone, WaitTimesOut, CleanupFiles, preparedVars
<1>3. ASSUME NEW h \in Handlers, Deliver(h) PROVE PendingInv'
  BY <1>3 DEF Deliver
<1>4. ASSUME NEW h \in Handlers, LoadStopped(h) PROVE PendingInv'
  BY <1>4 DEF LoadStopped
<1>5. ASSUME NEW h \in Handlers, SetAgain(h) \/ TakeRunning(h) PROVE PendingInv'
  BY <1>5 DEF SetAgain, TakeRunning
<1>6. ASSUME NEW h \in Handlers, NEW w \in Workers, SpawnWorker(h, w) PROVE PendingInv'
  BY <1>6 DEF SpawnWorker
<1>7. ASSUME NEW w \in Workers, WorkerSteps(w) PROVE PendingInv'
  <2>1. CASE CheckStopped(w) \/ ReleaseRunning(w) \/ RecheckAgain(w) \/ RetakeRunning(w)
    BY <2>1 DEF CheckStopped, ReleaseRunning, RecheckAgain, RetakeRunning
  <2>2. CASE ClearAgain(w) \/ ClearRunning(w)
    BY <2>2 DEF ClearAgain, ClearRunning, StopInv
  <2>3. CASE SwapAgain(w)
    BY <2>3 DEF SwapAgain
  <2> QED
    BY <1>7, <2>1, <2>2, <2>3 DEF WorkerSteps
<1>8. ASSUME NEW p \in Rebuilders, LockRebuild(p) \/ RefreshFiles(p) \/ InsertRoot(p) PROVE PendingInv'
  <2>1. /\ rebuilder'[p].pc \in {"refresh", "insert", "compile"}
        /\ UNCHANGED <<cat, snapshot, events, again, stopped, handler>>
    BY <1>8 DEF LockRebuild, RefreshFiles, InsertRoot
  <2> QED
    BY <2>1
<1>9. ASSUME NEW p \in Rebuilders, Compile(p) PROVE PendingInv'
  <2>1. CASE p \in Workers /\ canceled
    BY <1>9, <2>1 DEF Compile, StopInv
  <2>2. CASE ~(p \in Workers /\ canceled)
    <3>1. rebuilder'[p].pc = "store" /\ rebuilder'[p].ver = cat /\ cat' = cat
      BY <1>9, <2>2 DEF Compile
    <3> QED
      BY <3>1
  <2> QED
    BY <2>1, <2>2
<1>10. ASSUME NEW p \in Rebuilders, StoreSnapshot(p) PROVE PendingInv'
  <2>1. /\ snapshot' = rebuilder[p].ver
        /\ snapshot <= rebuilder[p].ver /\ rebuilder[p].ver <= cat
        /\ \A q \in Rebuilders : q # p => rebuilder'[q] = rebuilder[q]
        /\ UNCHANGED <<cat, events, again, stopped, handler>>
    BY <1>10 DEF StoreSnapshot, VersionInv
  <2>2. CASE rebuilder[p].ver = cat
    BY <2>1, <2>2
  <2>3. CASE rebuilder[p].ver # cat
    <3>1. snapshot # cat
      BY <2>1, <2>3
    <3>2. rebuilder[p].pc = "store"
      BY <1>10 DEF StoreSnapshot
    <3> QED
      BY <2>1, <2>3, <3>1, <3>2
  <2> QED
    BY <2>2, <2>3
<1>11. ASSUME NEW d \in Deleters, DeleteVariantArtifact(d) PROVE PendingInv'
  <2>1. rebuilder'[d].pc = "lock"
    BY <1>11 DEF DeleteVariantArtifact
  <2> QED
    BY <2>1
<1> QED
  BY <1>1, <1>2, <1>3, <1>4, <1>5, <1>6, <1>7, <1>8, <1>9, <1>10, <1>11
     DEF PreparedNext, HandlerSteps, RebuildSteps

(***************************************************************************)
(* NothingIsLost: however events, handlers, workers and requests           *)
(* interleave, a service that has come to rest shows the whole catalog.    *)
(* This is what the second look at rebuildAgain in releaseRebuildWorker is *)
(* for.                                                                    *)
(***************************************************************************)
THEOREM NothingIsLost == PreparedSpec => []QuietIsCurrent
<1> DEFINE Inv == Types /\ StopInv /\ VersionInv /\ RoleInv /\ AgainInv /\ PendingInv
<1>1. PreparedInit => Inv
  <2>1. PreparedInit => AgainInv /\ PendingInv
    BY DEF PreparedInit, AgainInv, PendingInv
  <2> QED
    BY <2>1, TypesInit, StopInvInit, VersionInvInit, RoleInvInit
<1>2. Inv /\ [PreparedNext]_preparedVars => Inv'
  BY TypesStep, StopInvStep, VersionInvStep, RoleInvStep, AgainInvStep, PendingInvStep
<1>3. Inv => QuietIsCurrent
  <2> SUFFICES ASSUME Inv, quiet PROVE snapshot = cat
    BY DEF QuietIsCurrent
  <2>1. ~running
    BY DEF RoleInv, HandlerHolds, WorkerHolds, OwnerPoints, RebuildPoints, LockedPoints, quiet, Rebuilders
  <2>2. ~stopped
    BY DEF StopInv, quiet
  <2>3. ~again
    BY <2>1, <2>2 DEF AgainInv, quiet, Rebuilders
  <2> QED
    BY <2>2, <2>3 DEF PendingInv, OnItsWay, quiet
<1> QED
  BY <1>1, <1>2, <1>3, PTL DEF PreparedSpec

-----------------------------------------------------------------------------
(* RuntimeLifecycle *)

MainPoints ==
    {"catalog_scan", "cache_warmup", "prepared_snapshot", "listen", "listening", "await", "running",
     "startCleanup", "startFailed", "shutdown", "drain", "close", "waitStopped", "finish", "exited"}

LifecycleTypes ==
    /\ main \in MainPoints
    /\ ready \in BOOLEAN /\ signalled \in BOOLEAN /\ started \in BOOLEAN
    /\ serveErr \in BOOLEAN /\ fatal \in BOOLEAN /\ early \in BOOLEAN
    /\ listener \in {"none", "open", "closed"}
    /\ server \in {"none", "starting", "started", "serving", "failing", "ended"}
    /\ req \in [Requests -> {"idle", "active", "answered"}]
    /\ causes \in SUBSET {"start", "timeout", "serve", "fatal"}
    /\ faults \in Nat

(***************************************************************************)
(* The goroutine that serves: an error is set before it is reported, and   *)
(* it is reported before done is closed.                                   *)
(***************************************************************************)
ServerInv ==
    /\ server \in {"started", "serving"} => started
    /\ started => server \notin {"none", "starting"}
    /\ server = "failing" => serveErr
    /\ serveErr => server \in {"failing", "ended"}
    /\ serveErr /\ server = "ended" => fatal
    /\ fatal => serveErr

(***************************************************************************)
(* The start: what stands at each point of startMainHTTPRuntime.           *)
(***************************************************************************)
StartInv ==
    /\ main \in {"catalog_scan", "cache_warmup", "prepared_snapshot", "listen"} =>
         listener = "none" /\ server = "none" /\ causes = {}
    /\ main = "listening" => listener = "open" /\ server = "none" /\ causes = {}
    /\ main \in {"await", "running"} => listener = "open" /\ server # "none" /\ causes = {}
    /\ main = "running" => started
    /\ main = "startCleanup" => listener = "closed" /\ causes = {"start"}
    /\ FailedStartLeavesNothing

(***************************************************************************)
(* The stop: as long as no error has been noted, a signal was the reason,  *)
(* and what each of its steps has waited for is the case.                  *)
(***************************************************************************)
LifecycleStopInv ==
    /\ main \in {"listen", "listening", "await", "running", "startCleanup"} => ready
    /\ main \in {"shutdown", "drain", "close", "waitStopped", "finish"} => ready /\ started
    /\ main \in {"shutdown", "drain", "close", "waitStopped", "finish"} /\ causes = {} => signalled
    /\ main \in {"drain", "waitStopped", "finish"} => listener = "closed"
    /\ main \in {"close", "waitStopped", "finish"} /\ causes = {} =>
         early \/ (listener = "closed" /\ Active = {})
    /\ main = "finish" /\ causes = {} => server = "ended"
    /\ ExitTellsTheTruth

LifecycleInv == LifecycleTypes /\ ServerInv /\ StartInv /\ LifecycleStopInv
-----------------------------------------------------------------------------
(***************************************************************************)
(* LifecycleInvInit: the process begins with nothing open, served or failed.        *)
(***************************************************************************)
LEMMA LifecycleInvInit == LifecycleInit => LifecycleInv
<1> SUFFICES ASSUME LifecycleInit PROVE LifecycleInv
  OBVIOUS
<1>1. LifecycleTypes
  BY DEF LifecycleInit, LifecycleTypes, MainPoints
<1>2. ServerInv
  BY DEF LifecycleInit, ServerInv
<1>3. StartInv
  BY DEF LifecycleInit, StartInv, FailedStartLeavesNothing
<1>4. LifecycleStopInv
  BY DEF LifecycleInit, LifecycleStopInv, ExitTellsTheTruth
<1> QED
  BY <1>1, <1>2, <1>3, <1>4 DEF LifecycleInv

(***************************************************************************)
(* MainStep: no step of the main goroutine, from the scan of the catalog   *)
(* to the exit, breaks the invariant.                                      *)
(***************************************************************************)
LEMMA MainStep == LifecycleInv /\ Main => LifecycleInv'
<1> SUFFICES ASSUME LifecycleInv, Main PROVE LifecycleInv'
  OBVIOUS
<1> USE DEF LifecycleInv, LifecycleTypes, MainPoints, ServerInv, StartInv, LifecycleStopInv, FailedStartLeavesNothing,
        ExitTellsTheTruth, Active, startup, serving
<1>1. CASE BootstrapStep
  BY <1>1 DEF BootstrapStep, Bootstrapping, afterPhase
<1>2. CASE BootstrapFails
  BY <1>2 DEF BootstrapFails, Bootstrapping, interrupted, fault
<1>3. CASE Listen
  BY <1>3 DEF Listen
<1>4. CASE ListenFails
  BY <1>4 DEF ListenFails, interrupted, fault
<1>5. CASE StartServer
  BY <1>5 DEF StartServer
<1>6. CASE Started
  BY <1>6 DEF Started
<1>7. CASE StoppedBeforeStart
  BY <1>7 DEF StoppedBeforeStart
<1>8. CASE StartCanceled
  BY <1>8 DEF StartCanceled
<1>9. CASE StartCleanup
  BY <1>9 DEF StartCleanup
<1>10. CASE WaitForRuntimeExit
  BY <1>10 DEF WaitForRuntimeExit
<1>11. CASE Shutdown
  BY <1>11 DEF Shutdown
<1>12. CASE Drained
  BY <1>12 DEF Drained
<1>13. CASE DrainTimesOut
  BY <1>13 DEF DrainTimesOut
<1>14. CASE CloseListener
  BY <1>14 DEF CloseListener
<1>15. CASE WaitStopped
  BY <1>15 DEF WaitStopped
<1>16. CASE StopTimesOut
  BY <1>16 DEF StopTimesOut
<1>17. CASE Finish
  BY <1>17 DEF Finish
<1> QED
  BY <1>1, <1>2, <1>3, <1>4, <1>5, <1>6, <1>7, <1>8, <1>9, <1>10, <1>11, <1>12, <1>13, <1>14, <1>15, <1>16, <1>17 DEF Main

(***************************************************************************)
(* ServerStep: neither does one of the goroutine that serves.              *)
(***************************************************************************)
LEMMA ServerStep == LifecycleInv /\ main # "exited" /\ (Server \/ Report \/ Done) => LifecycleInv'
<1> SUFFICES ASSUME LifecycleInv, main # "exited", Server \/ Report \/ Done PROVE LifecycleInv'
  OBVIOUS
<1> USE DEF LifecycleInv, LifecycleTypes, MainPoints, ServerInv, StartInv, LifecycleStopInv, FailedStartLeavesNothing,
        ExitTellsTheTruth, Active, startup, serving
<1>1. CASE BeforeServe
  BY <1>1 DEF BeforeServe
<1>2. CASE Serve
  BY <1>2 DEF Serve
<1>3. CASE ListenerFails
  BY <1>3 DEF ListenerFails, fault
<1>4. CASE ListenerClosed
  BY <1>4 DEF ListenerClosed
<1>5. CASE Report
  BY <1>5 DEF Report
<1>6. CASE Done
  BY <1>6 DEF Done
<1> QED
  BY <1>1, <1>2, <1>3, <1>4, <1>5, <1>6 DEF Server

(***************************************************************************)
(* RequestStep: nor a request: none is accepted once the listener is       *)
(* closed, so that Shutdown's wait for the active ones ends them all.      *)
(***************************************************************************)
LEMMA RequestStep ==
    ASSUME LifecycleInv, NEW r \in Requests, Accept(r) \/ Answer(r)
    PROVE  LifecycleInv'
<1> USE DEF LifecycleInv, LifecycleTypes, MainPoints, ServerInv, StartInv, LifecycleStopInv, FailedStartLeavesNothing,
        ExitTellsTheTruth, Active, startup, serving
<1>1. CASE Accept(r)
  BY <1>1 DEF Accept
<1>2. CASE Answer(r)
  BY <1>2 DEF Answer
<1> QED
  BY <1>1, <1>2

(***************************************************************************)
(* LifecycleInvStep: every step of the process keeps the invariant.                 *)
(***************************************************************************)
LEMMA LifecycleInvStep == LifecycleInv /\ [LifecycleNext]_lifecycleVars => LifecycleInv'
<1> SUFFICES ASSUME LifecycleInv, [LifecycleNext]_lifecycleVars PROVE LifecycleInv'
  OBVIOUS
<1>1. CASE Signal
  BY <1>1 DEF Signal, LifecycleInv, LifecycleTypes, MainPoints, ServerInv, StartInv, LifecycleStopInv, FailedStartLeavesNothing,
     ExitTellsTheTruth, Active, startup, serving
<1>2. CASE UNCHANGED lifecycleVars
  BY <1>2 DEF lifecycleVars, LifecycleInv, LifecycleTypes, MainPoints, ServerInv, StartInv, LifecycleStopInv, FailedStartLeavesNothing,
     ExitTellsTheTruth, Active, startup, serving
<1> QED
  BY <1>1, <1>2, MainStep, ServerStep, RequestStep DEF LifecycleNext

(***************************************************************************)
(* FailedStartIsClean: whatever fails or is signalled during the start,    *)
(* and whenever, the listener is closed and the goroutine that serves has  *)
(* ended, or the error says that the wait for it has timed out             *)
(* (startMainHTTPRuntime, waitForMainHTTPRuntimeStart).                    *)
(***************************************************************************)
THEOREM FailedStartIsClean == LifecycleSpec => []FailedStartLeavesNothing
<1>1. LifecycleInv => FailedStartLeavesNothing
  BY DEF LifecycleInv, StartInv
<1> QED
  BY <1>1, LifecycleInvInit, LifecycleInvStep, PTL DEF LifecycleSpec

(***************************************************************************)
(* ExitIsTruthful: the process exits without error only after a signal and *)
(* a stop in which serving ended without error and no request was cut off, *)
(* for any number of requests (runRuntimeContainerContext,                 *)
(* stopMainHTTPRuntime).                                                   *)
(***************************************************************************)
THEOREM ExitIsTruthful == LifecycleSpec => []ExitTellsTheTruth
<1>1. LifecycleInv => ExitTellsTheTruth
  BY DEF LifecycleInv, LifecycleStopInv
<1> QED
  BY <1>1, LifecycleInvInit, LifecycleInvStep, PTL DEF LifecycleSpec
=============================================================================
