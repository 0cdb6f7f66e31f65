-------------------------- MODULE MCIndexedCatalog --------------------------
(***************************************************************************)
(* Two assets and five variants chosen to collide in every way an upsert   *)
(* can: br2 with br on the encoding under another ID, webp2 with webp on   *)
(* the image slot and with br on the artifact path, and other with br on   *)
(* the artifact path across assets; br2 and webp share the stage.          *)
(***************************************************************************)
EXTENDS IndexedCatalog

CONSTANTS a1, a2, x1, x2, x3, br, webp, given, compress, image

variant(path, id, art, enc, fmt, mfmt, width, stage) ==
    [AssetPath |-> path, ID |-> id, ArtifactPath |-> art, Encoding |-> enc, Format |-> fmt,
     MediaFormat |-> mfmt, Width |-> width, Stage |-> stage]

MCVariants ==
    {variant(a1, None, x1, br, None, None, 0, compress),
     variant(a1, given, x2, br, None, None, 0, image),
     variant(a1, None, x3, None, webp, None, 1, image),
     variant(a1, given, x1, None, None, webp, 1, None),
     variant(a2, None, x1, br, None, None, 0, compress)}
=============================================================================
