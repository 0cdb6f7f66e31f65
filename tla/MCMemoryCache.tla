--------------------------- MODULE MCMemoryCache ---------------------------
(***************************************************************************)
(* Contents of a small, a large and a too large file.                      *)
(***************************************************************************)
EXTENDS MemoryCache

MCFiles == {<<"source", "text">>, <<"source", "binary">>, <<"artifact", "variant">>}
MCSizeOf == <<1000, 7000, 9000>>
=============================================================================
