------------------------------ MODULE CTIStore ------------------------------
(***************************************************************************)
(* What the ledger promises to the organisations that share through it: a  *)
(* write-once store of STIX objects.  An id gets at most one object, ever; *)
(* each replica shows part of the store and only ever gains objects.       *)
(***************************************************************************)
CONSTANTS Peer, Key, Object, Nil

VARIABLES
  store, (* the object accepted under each id, Nil while the id is free    *)
  view   (* what each replica shows of it                                  *)

storeVars == <<store, view>>

StoreInit ==
  /\ store = [k \in Key |-> Nil]
  /\ view  = [p \in Peer |-> [k \in Key |-> Nil]]

(* The first replica to show a new object fixes it for everybody.          *)
Accept(p, k) ==
  LET o == view'[p][k] IN
  /\ store[k] = Nil /\ o \in Object
  /\ store' = [store EXCEPT ![k] = o]
  /\ view'  = [view EXCEPT ![p][k] = o]

(* A replica that is behind catches up with one accepted object.           *)
CatchUp(p, k) ==
  /\ view[p][k] = Nil
  /\ store[k] # Nil
  /\ view' = [view EXCEPT ![p][k] = store[k]]
  /\ UNCHANGED store

StoreNext ==
  \E p \in Peer, k \in Key : Accept(p, k) \/ CatchUp(p, k)

StoreSpec == StoreInit /\ [][StoreNext]_storeVars

=============================================================================
