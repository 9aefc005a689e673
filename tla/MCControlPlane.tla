--------------------------- MODULE MCControlPlane ---------------------------
(* Small instances of ControlPlane for TLC. *)
EXTENDS ControlPlane

CONSTANTS p1, p2, balanced, interactive

=============================================================================
