--------------------------- MODULE MCNegotiation ---------------------------
(* Bounds for Negotiation: paths of up to three segments with every special *)
(* one among them, two encodings and two image formats.                     *)
EXTENDS Negotiation

MCEncodings == <<"br", "gzip">>
MCFormats == <<"jpeg", "webp">>
MCFormatOf == ("image/jpeg" :> "jpeg") @@ ("image/jpg" :> "jpeg") @@ ("image/webp" :> "webp")
MCImageKeys == {<<"jpeg", 2>>, <<"webp", 0>>, <<"webp", 2>>, <<"webp", 4>>}
MCUnescaped == ("%64ocs" :> "docs") @@ ("%2564ocs" :> "%64ocs")
MCMount == <<"", "app">>
MCEntry == <<"index.html">>
Segments == {"", "..", "docs", "v1.2", "app.js", ".env", "%64ocs", "%2564ocs"}
MCRequestPaths == UNION {[1..n -> Segments] : n \in 0..3}
MCAssetPaths == {<<"index.html">>, <<"docs">>, <<"docs", "index.html">>, <<"v1.2", "index.html">>,
                 <<"docs", "app.js">>, <<".env", "index.html">>, <<"index.html", "index.html">>}
============================================================================
