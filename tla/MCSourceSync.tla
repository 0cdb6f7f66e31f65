---------------------------- MODULE MCSourceSync ----------------------------
(***************************************************************************)
(* An asset and its sidecar, two files whose events can overtake another.  *)
(***************************************************************************)
EXTENDS SourceSync

CONSTANTS a, s

MCAssets == {a}
MCSidecars == {s}
MCOwner == [x \in {s} |-> a]
=============================================================================
