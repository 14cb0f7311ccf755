--------------------------- MODULE MCBundleEditor ---------------------------
(* A small instance of BundleEditor.                                        *)
EXTENDS BundleEditor

CONSTANTS malware, u1, u2

Obj(id, type) == [id |-> id, type |-> type, source |-> Empty, target |-> Empty]

(* An object alone, and with a relationship; the ends picked for one are     *)
(* the object and the first one to be added.                                *)
ShortBundles == {<<Obj(u1, malware)>>, <<Obj(u1, malware), Obj(u2, relationship)>>}
Ends         == {<<u1, <<malware, 1>>>>}

(* ObjectsAt is the library's recursive filter.                              *)
ASSUME FilterAssumption ==
  \A n \in 0 .. 5, id \in Id : \A list \in [1 .. n -> {u1, u2}] :
    ObjectsAt(list, {i \in 1 .. n : list[i] # id}) = SelectSeq(list, LAMBDA x : x # id)

=============================================================================
