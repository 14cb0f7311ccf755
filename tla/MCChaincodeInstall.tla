------------------------- MODULE MCChaincodeInstall -------------------------
(* Finite instances of ChaincodeInstall.                                    *)
EXTENDS ChaincodeInstall

CONSTANTS p1, p2

MCPeers == <<p1, p2>>

=============================================================================
