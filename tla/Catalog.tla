------------------------------ MODULE Catalog ------------------------------
(***************************************************************************)
(* What the catalog promises its callers (the Catalog interface of         *)
(* internal/catalog/model.go): a map of assets and a set of variants, each *)
(* operation atomic, and at most one variant per key, per artifact path,   *)
(* per (asset, encoding) and per (asset, image format, width); the latest  *)
(* one wins.  ReplaceCatalog reads its input at its own pace, under the    *)
(* same rule, and takes effect at once or not at all.                      *)
(***************************************************************************)
EXTENDS CatalogTypes

VARIABLES
    assets,    \* path -> content
    variants,  \* the set of records
    loading    \* [pc, assets, variants]: the ReplaceCatalog call in progress

vars == <<assets, variants, loading>>

(***************************************************************************)
(* Two records that cannot be in the catalog together.                     *)
(***************************************************************************)
Collide(r, s) ==
    \/ variantRecordKey(r) = variantRecordKey(s)
    \/ r.ArtifactPath # None /\ r.ArtifactPath = s.ArtifactPath
    \/ /\ r.Encoding # None
       /\ r.AssetPath = s.AssetPath /\ r.Encoding = s.Encoding
    \/ /\ r.ImageFormat # None
       /\ variantImageFormatKey(r) = variantImageFormatKey(s)
       /\ r.Width = s.Width

Put(V, r) == {s \in V : ~Collide(r, s)} \cup {r}

notLoading == [pc |-> "idle", assets |-> EmptyMap, variants |-> {}]

Init == assets = EmptyMap /\ variants = {} /\ loading = notLoading

UpsertAsset(path, content) ==
    /\ assets' = SetKey(assets, path, content)
    /\ UNCHANGED <<variants, loading>>

UpsertVariant(r) ==
    /\ r.AssetPath \in DOMAIN assets
    /\ variants' = Put(variants, r)
    /\ UNCHANGED <<assets, loading>>

DeleteVariants(path) ==
    /\ variants' = {s \in variants : s.AssetPath # path}
    /\ UNCHANGED <<assets, loading>>

DeleteAsset(path) ==
    /\ assets' = DropKeys(assets, {path})
    /\ variants' = {s \in variants : s.AssetPath # path}
    /\ UNCHANGED loading

DeleteVariantByArtifactPath(p) ==
    /\ variants' = {s \in variants : s.ArtifactPath # p}
    /\ UNCHANGED <<assets, loading>>

BeginReplace(A) ==
    /\ loading.pc = "idle"
    /\ loading' = [pc |-> "building", assets |-> A, variants |-> {}]
    /\ UNCHANGED <<assets, variants>>

LoadVariant(r) ==
    /\ loading.pc = "building"
    /\ loading' = IF r.AssetPath \in DOMAIN loading.assets
                    THEN [loading EXCEPT !.variants = Put(@, r)]
                    ELSE notLoading
    /\ UNCHANGED <<assets, variants>>

ReplaceCatalog ==
    /\ loading.pc = "building"
    /\ assets' = loading.assets
    /\ variants' = loading.variants
    /\ loading' = notLoading

Next ==
    \/ \E path \in AssetPaths, content \in AssetContents : UpsertAsset(path, content)
    \/ \E r \in Records : UpsertVariant(r)
    \/ \E path \in AssetPaths : DeleteAsset(path) \/ DeleteVariants(path)
    \/ \E r \in Records : r.ArtifactPath # None /\ DeleteVariantByArtifactPath(r.ArtifactPath)
    \/ \E A \in AssetMaps : BeginReplace(A)
    \/ \E r \in Records : LoadVariant(r)
    \/ ReplaceCatalog

Spec == Init /\ [][Next]_vars
=============================================================================
