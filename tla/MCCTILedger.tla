---------------------------- MODULE MCCTILedger ----------------------------
(* Finite instances of CTILedger.                                           *)
EXTENDS CTILedger, TLC

CONSTANTS a, b, x, y

(* Two documents compete for id a, one of another type takes part, and the  *)
(* others are those that some check of the Create functions refuses.        *)
Doc(type, id, body, unparsable) ==
  [type |-> type, id |-> id, spec |-> "2.1", body |-> body, unparsable |-> unparsable]

RacingDocs == {Doc("indicator", a, x, {}), Doc("bundle", a, x, {}),
               Doc("sighting", b, x, {})}

RefusedDocs == {Doc("relationship", EmptyKey, x, {}),
                Doc(ForeignType, b, x, {"indicator"})}

MixedDocs == RacingDocs \cup RefusedDocs

Symmetry == Permutations(Request) \cup Permutations(Peer)

=============================================================================
