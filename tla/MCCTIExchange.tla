--------------------------- MODULE MCCTIExchange ---------------------------
(* Finite instances of CTIExchange.                                         *)
EXTENDS CTIExchange, TLC

Symmetry == Permutations(Sender) \cup Permutations(Receiver)

=============================================================================
