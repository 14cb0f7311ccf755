---------------------------- MODULE MCFabricNode ----------------------------
(* A finite instance of FabricNode.                                         *)
EXTENDS FabricNode

=============================================================================
