---------------------------- MODULE MCGeneration ----------------------------
(***************************************************************************)
(* A page and a photo, a worker of the queue and one of the warm-up.  The  *)
(* second content of the photo is too large; two batches of the first do   *)
(* not fit into the memory at a time.                                      *)
(***************************************************************************)
EXTENDS Generation, TLC

MCEncodings == <<"gzip">>
MCSourceFormat == "page" :> "" @@ "photo" :> "jpeg"
MCSupported == <<"jpeg", "webp">>
MCConfigFormats == <<"webp">>
MCConfigWidths == <<2>>
MCPicture == [p \in Assets |-> <<[w |-> 4, h |-> 2, bytes |-> 5], [w |-> 9, h |-> 12, bytes |-> 5]>>]

request(p, encodings, formats, widths) ==
    [path |-> p, encodings |-> encodings, formats |-> formats, widths |-> widths]
MCRequests == {request("page", <<>>, <<>>, <<>>), request("photo", <<>>, <<>>, <<>>),
               request("photo", <<>>, <<"avif", "webp">>, <<4>>)}
=============================================================================
