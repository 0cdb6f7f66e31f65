---------------------------- MODULE CatalogTypes ----------------------------
(***************************************************************************)
(* The values the asset catalog stores (internal/catalog/records.go,       *)
(* helpers.go): asset paths and contents, variants as callers pass them,   *)
(* and the index record the catalog derives from a variant.  None is the   *)
(* empty string of the Go fields.                                          *)
(***************************************************************************)


CONSTANTS
    AssetPaths,    \* the asset paths callers use
    AssetContents, \* what distinguishes two versions of an asset
    Variants,      \* the variants callers may upsert
    None           \* the empty string

(***************************************************************************)
(* The fields of a Variant that the indices look at.  MediaFormat is       *)
(* media.ImageFormat(MediaType): the image format a media type names, or   *)
(* None for a type that is not one of the four supported image types.      *)
(***************************************************************************)
VariantFields ==
    {"AssetPath", "ID", "ArtifactPath", "Encoding", "Format", "MediaFormat",
     "Width", "Stage"}

ASSUME VariantsAssumption ==
    /\ \A v \in Variants : DOMAIN v = VariantFields
    /\ \A v \in Variants : v.AssetPath \in AssetPaths

(***************************************************************************)
(* VariantID joins the labelled non-empty parts, so it is injective on     *)
(* them; a tuple keeps exactly what the string tells apart.                *)
(***************************************************************************)
VariantID(v) == <<v.AssetPath, v.Encoding, v.Format, v.Width>>

imageFormatKey(v) == IF v.Format # None THEN v.Format ELSE v.MediaFormat

buildVariantRecord(v) ==
    [AssetPath    |-> v.AssetPath,
     ID           |-> IF v.ID = None THEN VariantID(v) ELSE v.ID,
     ArtifactPath |-> v.ArtifactPath,
     Encoding     |-> v.Encoding,
     ImageFormat  |-> imageFormatKey(v),
     Stage        |-> v.Stage,
     Width        |-> v.Width]

Records == {buildVariantRecord(v) : v \in Variants}

variantRecordKey(r) == <<r.AssetPath, r.ID>>
variantImageFormatKey(r) == <<r.AssetPath, r.ImageFormat>>

AssetMaps == UNION {[D -> AssetContents] : D \in SUBSET AssetPaths}

(***************************************************************************)
(* Go maps are partial functions.                                          *)
(***************************************************************************)
SetKey(f, k, x) == [y \in DOMAIN f \cup {k} |-> IF y = k THEN x ELSE f[y]]
DropKeys(f, K) == [y \in DOMAIN f \ K |-> f[y]]
EmptyMap == [y \in {} |-> y]
=============================================================================
