----------------------------- MODULE MCCompiler -----------------------------
(***************************************************************************)
(* Two assets and a variant; bodies "old" and "new" have the same size.    *)
(* The bundles found at the output path: one that is whole, and one each   *)
(* that misses a file, holds one twice, holds one that is not declared,    *)
(* has another body, declares another size, has its index too late, has an *)
(* unsafe path, or is larger than the limits.  Asset b is "generated", the *)
(* directory of the variants, so a bundle with b and va is no tree.        *)
(***************************************************************************)
EXTENDS Compiler, TLC

CONSTANTS a, b, va

MCAssets == {a, b}
MCVariants == {va}
MCOwnerOf == va :> a
MCBelow == {<<b, va>>}
MCInitially == [f \in MCAssets |-> "old"]
MCBodies == {"old", "new", "long"}
MCSizeOf == ("old" :> 1) @@ ("new" :> 1) @@ ("long" :> 2)

declares(path, body) == indexFile(path, MCSizeOf[body], body, body)
MCForeign ==
    LET ab == indexEntry(<<declares(a, "old"), declares(b, "long")>>)
        pa == payloadEntry(a, "old")
        pb == payloadEntry(b, "long")
    IN  {<<ab, pb, pa>>,
         <<ab, pa>>,
         <<ab, pa, pa>>,
         <<ab, pa, pb, payloadEntry(va, "old")>>,
         <<ab, payloadEntry(a, "new"), pb>>,
         <<indexEntry(<<indexFile(a, 2, "old", "old")>>), pa>>,
         <<pa, ab, pb>>,
         <<ab, pa, payloadEntry(Unsafe, NoBody)>>,
         <<indexEntry(<<declares(a, "long"), declares(b, "long")>>), payloadEntry(a, "long"), pb>>}
=============================================================================
