---------------------------- MODULE CTIContract ----------------------------
(***************************************************************************)
(* The chaincode functions of cti_stix_chaincode.go, as operators.         *)
(*                                                                         *)
(* A function runs against the world state of one peer and either returns  *)
(* an error or a simulation result: the versions it read, the values it    *)
(* wrote and the payload it answers with.  Nothing is written here: a peer *)
(* only simulates, and CTILedger orders, validates and applies the result. *)
(*                                                                         *)
(* A JSON document is reduced to what the functions look at: the "type"    *)
(* and "id" fields, the "spec_version" field, the rest of the object as an *)
(* opaque body, and the set of Go structs it cannot be unmarshalled into   *)
(* (a number field holding a string, text that is no JSON at all).         *)
(***************************************************************************)
EXTENDS Naturals

CONSTANTS
  Key,         (* the non-empty STIX ids that documents carry              *)
  EmptyKey,    (* the id of a document without an "id" field               *)
  Body,        (* what a document holds besides type, id and spec_version  *)
  Blank,       (* the body of a struct whose own fields were all absent    *)
  ForeignType, (* a "type" that names none of the four structs             *)
  Nil          (* no value                                                 *)

StixType    == {"indicator", "relationship", "sighting", "bundle"}
SpecVersion == {"2.1", "other"}

Document ==
  [type: StixType \cup {ForeignType}, id: Key \cup {EmptyKey},
   spec: SpecVersion, body: Body, unparsable: SUBSET StixType]

(* The value marshalled back and stored: the struct's fields only.         *)
Object == [type: StixType, id: Key, spec: SpecVersion, body: Body]

(* What a Read shows of a stored object.                                    *)
Shown == [type: StixType, id: Key, spec: SpecVersion, body: Body \cup {Blank}]

ASSUME KeyAssumption  == Key # {} /\ EmptyKey \notin Key
ASSUME BodyAssumption == Blank \notin Body
ASSUME TypeAssumption == ForeignType \notin StixType
ASSUME NilAssumption  == Nil \notin Object

(***************************************************************************)
(* World state: key -> version and value, version 0 when the key is free.  *)
(***************************************************************************)
Free       == [ver |-> 0, val |-> Nil]
Entry      == {Free} \cup [ver: Nat \ {0}, val: Object]
WorldState == [Key -> Entry]

Present(ws) == {k \in Key : ws[k].ver # 0}

(* GetState of one key; the empty id is never stored, so it reads as free. *)
GetState(ws, k) == IF k \in Key THEN ws[k] ELSE Free

(***************************************************************************)
(* A simulation result.  reads and writes are functions on the keys        *)
(* touched by GetState and PutState, range the versions GetStateByRange    *)
(* saw for the whole key space (an absent key counts: a phantom).          *)
(***************************************************************************)
None == [k \in {} |-> 0]

IsSimulation(t) ==
  /\ \A versions \in {t.reads, t.range} :
       DOMAIN versions \subseteq Key /\ versions \in [DOMAIN versions -> Nat]
  /\ DOMAIN t.writes \subseteq Key /\ t.writes \in [DOMAIN t.writes -> Object]

(* assetExists: error-free here, true iff GetState returned data.          *)
assetExists(ws, id) == GetState(ws, id).val # Nil

(* The struct a document decodes to, marshalled again for storage: fields  *)
(* the struct does not declare are gone, the declared ones are the body.   *)
Marshalled(d) == [type |-> d.type, id |-> d.id, spec |-> d.spec, body |-> d.body]

(* putAsset -> PutState(id, json): the shim refuses an empty key.          *)
putAssetFails(id) == id = EmptyKey

(* Mutants: a Create that forgets to ask assetExists, or stores under an    *)
(* empty id.                                                                *)
CreateErrorOverwrites(ws, type, d) ==
  IF type \in d.unparsable THEN "parse"
  ELSE IF d.type # type     THEN "type"
  ELSE IF putAssetFails(d.id) THEN "put"
  ELSE "none"

CreateErrorEmptyId(ws, type, d) ==
  IF type \in d.unparsable      THEN "parse"
  ELSE IF d.type # type          THEN "type"
  ELSE IF assetExists(ws, d.id)  THEN "exists"
  ELSE "none"

(* The four Create functions: unmarshal, check the type, check the id is   *)
(* free, marshal, put.  The first check that fails is the error returned.  *)
CreateError(ws, type, d) ==
  IF type \in d.unparsable      THEN "parse"
  ELSE IF d.type # type          THEN "type"
  ELSE IF assetExists(ws, d.id)  THEN "exists"
  ELSE IF putAssetFails(d.id)    THEN "put"
  ELSE "none"

(* Mutants: existence remembered by the chaincode instead of read from the  *)
(* ledger (nothing in the read set), or looked up in a list of all objects. *)
CreateSimulationBlind(ws, d) ==
  [reads |-> None, range |-> None, writes |-> [k \in {d.id} |-> Marshalled(d)]]

CreateSimulationByScan(ws, d) ==
  [reads  |-> None,
   range  |-> [k \in Key |-> GetState(ws, k).ver],
   writes |-> [k \in {d.id} |-> Marshalled(d)]]

(* What a Create that reported no error read and wrote.                     *)
CreateSimulation(ws, d) ==
  [reads  |-> [k \in {d.id} |-> GetState(ws, k).ver],
   range  |-> None,
   writes |-> [k \in {d.id} |-> Marshalled(d)]]

(* The four Read functions: getAsset, then unmarshal into the struct that  *)
(* the function is named after.  The stored "type" is not compared with    *)
(* it: an object of another type decodes to a struct with the common       *)
(* fields set and its own fields zero.                                     *)
ReadFinds(ws, id) == GetState(ws, id).val # Nil

ReadResult(ws, type, id) ==
  LET stored == GetState(ws, id).val
  IN  [stored EXCEPT !.body = IF stored.type = type THEN @ ELSE Blank]

(* getAllAssets and the GetAllObjects variants: every value GetStateByRange *)
(* returns; each was marshalled from a struct, so the variant that decodes  *)
(* values into maps cannot fail on one.                                     *)
GetAllObjects(ws) == {ws[k].val : k \in Present(ws)}

(* Mutant: one GetState per known id, so a new id goes unnoticed.           *)
GetAllSimulationByKey(ws) ==
  [reads |-> None, range |-> [k \in Present(ws) |-> ws[k].ver], writes |-> None]

GetAllSimulation(ws) ==
  [reads |-> None, range |-> [k \in Key |-> ws[k].ver], writes |-> None]

=============================================================================
