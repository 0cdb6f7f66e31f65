-------------------------- MODULE MCArtifactCleanup --------------------------
(***************************************************************************)
(* An encoding and an image.  The encoding and its temporary file together *)
(* exceed the limit of their namespace, the image and its temporary file   *)
(* the one for all, and what these leave can still exceed the one for all. *)
(***************************************************************************)
EXTENDS ArtifactCleanup

CONSTANTS br, webp

MCPaths == {br, webp}
MCNamespaces == {"encoding", "image"}
MCNamespaceOf == [p \in Paths |-> IF p = webp THEN "image" ELSE "encoding"]
MCSizeOf == [p \in Paths |-> 1]
MCMaxAge == [n \in Namespaces |-> 1]
MCNamespaceMaxBytes == [n \in Namespaces |-> IF n = "encoding" THEN 1 ELSE 0]
=============================================================================
