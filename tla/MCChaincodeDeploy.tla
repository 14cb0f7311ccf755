-------------------------- MODULE MCChaincodeDeploy --------------------------
(* Finite instances of ChaincodeDeploy.                                     *)
EXTENDS ChaincodeDeploy

=============================================================================
