--------------------------- MODULE MCDebugPackage ---------------------------
(* DebugPackage for TLC. *)
EXTENDS DebugPackage
=============================================================================
