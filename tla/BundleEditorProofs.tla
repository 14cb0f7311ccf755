-------------------------- MODULE BundleEditorProofs --------------------------
(***************************************************************************)
(* What the bundle editor keeps, for any types, ids, initial bundles, ends  *)
(* picked for relationships and number of dialogs opened.                   *)
(***************************************************************************)
EXTENDS BundleEditor, FiniteSetTheorems, TLAPS

-----------------------------------------------------------------------------
(* Array.filter.                                                            *)

(* The k-th object kept is the one at the k-th position: each position is   *)
(* used once, none is left out, and they keep their order.                  *)
Selects(at, objects, K, m) ==
  /\ at \in [1 .. m -> K]
  /\ ObjectsAt(objects, K) = [k \in 1 .. m |-> objects[at[k]]]
  /\ \A k, l \in 1 .. m : k < l => at[k] < at[l]
  /\ \A i \in K : \E k \in 1 .. m : at[k] = i

LEMMA KeptPositions ==
  ASSUME NEW n \in Nat, NEW objects, NEW K \in SUBSET (1 .. n)
  PROVE  \E m \in Nat : \E at : Selects(at, objects, K, m)
<1> DEFINE upTo(i)  == {j \in K : j <= i}
           place(i) == Cardinality(upTo(i))
           m        == Cardinality(K)
<1>1. IsFiniteSet(K) /\ m \in Nat
  <2>1. IsFiniteSet(1 .. n)
    BY FS_Interval
  <2> QED
    BY <2>1, FS_Subset, FS_CardinalityType
<1> K \subseteq Int
  OBVIOUS
<1>2. \A i \in K : IsFiniteSet(upTo(i)) /\ place(i) \in Int /\ place(i) \in 1 .. m
  <2>1. TAKE i \in K
  <2>2. IsFiniteSet(upTo(i)) /\ place(i) <= m
    BY <1>1, FS_Subset, upTo(i) \in SUBSET K
  <2>3. place(i) \in Nat
    BY <2>2, FS_CardinalityType
  <2>4. i \in upTo(i)
    OBVIOUS
  <2>5. place(i) # 0
    BY <2>2, <2>4, FS_EmptySet
  <2> HIDE DEF place, upTo, m
  <2> QED
    BY <1>1, <2>2, <2>3, <2>5
<1>3. \A i, j \in K : i < j => place(i) < place(j)
  <2>1. TAKE i, j \in K
  <2>2. HAVE i < j
  <2>3. upTo(i) \in SUBSET upTo(j) /\ upTo(i) # upTo(j)
    <3>1. j \in upTo(j) /\ j \notin upTo(i)
      BY <2>2
    <3>2. \A l \in K : l <= i => l <= j
      BY <2>2
    <3>3. \A l \in upTo(i) : l \in upTo(j)
      BY <3>2
    <3> HIDE DEF upTo
    <3> QED
      BY <3>1, <3>3
  <2>4. place(i) <= place(j) /\ place(i) # place(j)
    <3>1. IsFiniteSet(upTo(j))
      BY <1>2
    <3> HIDE DEF upTo
    <3> QED
      BY <2>3, <3>1, FS_Subset
  <2>5. place(i) \in Int /\ place(j) \in Int
    BY <1>2
  <2> HIDE DEF place
  <2> QED
    BY <2>4, <2>5
<1>4. \A k \in 1 .. m : \E i \in K : place(i) = k
  <2> DEFINE p == [i \in K |-> place(i)]
  <2>1. p \in Injection(K, 1 .. m)
    <3>1. p \in [K -> 1 .. m]
      BY <1>2
    <3>2. \A i, j \in K : i # j => p[i] # p[j]
      <4>1. TAKE i, j \in K
      <4>2. HAVE i # j
      <4>3. i < j \/ j < i
        BY <4>2
      <4>4. place(i) \in Int /\ place(j) \in Int
        BY <1>2
      <4>5. place(i) # place(j)
        <5> HIDE DEF place, m
        <5> QED
          BY <1>3, <4>3, <4>4
      <4> QED
        BY <4>5
    <3> HIDE DEF p
    <3> QED
      BY <3>1, <3>2 DEF Injection, IsInjective
  <2>2. IsFiniteSet(1 .. m) /\ Cardinality(1 .. m) = m
    BY <1>1, FS_Interval
  <2>3. p \in Surjection(K, 1 .. m)
    <3> HIDE DEF p
    <3> QED
      BY <2>1, <2>2, FS_Injection
  <2>4. \A k \in 1 .. m : \E i \in K : p[i] = k
    BY <2>3 DEF Surjection
  <2> QED
    BY <2>4
<1> DEFINE at == [k \in 1 .. m |-> CHOOSE i \in K : place(i) = k]
<1>5. \A k \in 1 .. m : at[k] \in K /\ place(at[k]) = k
  <2> HIDE DEF place
  <2> QED
    BY <1>4
<1>6. at \in [1 .. m -> K]
  <2> HIDE DEF place
  <2> QED
    BY <1>4
<1>7. ObjectsAt(objects, K) = [k \in 1 .. m |-> objects[at[k]]]
  BY DEF ObjectsAt
<1>8. \A k, l \in 1 .. m : k < l => at[k] < at[l]
  <2>1. TAKE k, l \in 1 .. m
  <2>2. HAVE k < l
  <2>3. at[k] \in K /\ at[l] \in K /\ place(at[k]) = k /\ place(at[l]) = l
    BY <1>5
  <2>4. at[l] < at[k] => l < k
    <3> HIDE DEF at, place, m
    <3> QED
      BY <1>3, <2>3
  <2>5. k \in Int /\ l \in Int /\ at[k] \in Int /\ at[l] \in Int
    <3>1. k \in Int /\ l \in Int
      <4> HIDE DEF m
      <4> QED
        BY <1>1
    <3>2. at[k] \in Int /\ at[l] \in Int
      <4> HIDE DEF at, place
      <4> QED
        BY <2>3
    <3> QED
      BY <3>1, <3>2
  <2> HIDE DEF at, place, m
  <2>6. at[l] # at[k]
    BY <2>2, <2>3, <2>5
  <2> QED
    BY <2>2, <2>4, <2>5, <2>6
<1>9. \A i \in K : \E k \in 1 .. m : at[k] = i
  <2>1. TAKE i \in K
  <2>2. place(i) \in 1 .. m
    BY <1>2
  <2>3. at[place(i)] \in K /\ place(at[place(i)]) = place(i)
    <3>1. PICK k \in 1 .. m : k = place(i)
      BY <2>2
    <3> QED
      BY <1>5, <3>1
  <2>4. at[place(i)] = i
    <3> DEFINE j == at[place(i)]
    <3>1. j \in K /\ place(j) = place(i)
      BY <2>3
    <3>2. place(i) \in Int
      BY <1>2
    <3> HIDE DEF at, place, j
    <3>3. ~ (i < j) /\ ~ (j < i)
      BY <1>3, <3>1, <3>2
    <3>4. i \in Nat /\ j \in Nat
      BY <3>1
    <3>5. i = j
      BY <3>3, <3>4
    <3> QED
      BY <3>5 DEF j
  <2> QED
    BY <2>2, <2>4
<1> HIDE DEF at, place, m
<1> QED
  BY <1>1, <1>6, <1>7, <1>8, <1>9 DEF Selects

(* What is left of a list: the objects at the positions kept, each once.    *)
LEMMA KeptObjects ==
  ASSUME NEW objects \in Seq(Object), NEW K \in SUBSET DOMAIN objects, NEW kept,
         kept = ObjectsAt(objects, K)
  PROVE  /\ kept \in Seq(Object)
         /\ \E at \in [DOMAIN kept -> K] :
              /\ \A k \in DOMAIN kept : kept[k] = objects[at[k]]
              /\ \A k, l \in DOMAIN kept : at[k] = at[l] => k = l
              /\ \A i \in K : \E k \in DOMAIN kept : at[k] = i
<1>1. Len(objects) \in Nat /\ K \in SUBSET (1 .. Len(objects))
  OBVIOUS
<1>2. PICK m \in Nat : \E at : Selects(at, objects, K, m)
  BY <1>1, KeptPositions
<1>3. PICK at \in [1 .. m -> K] :
        /\ kept = [k \in 1 .. m |-> objects[at[k]]]
        /\ \A k, l \in 1 .. m : k < l => at[k] < at[l]
        /\ \A i \in K : \E k \in 1 .. m : at[k] = i
  BY <1>2 DEF Selects
<1>4. kept \in Seq(Object)
  <2>1. \A k \in 1 .. m : objects[at[k]] \in Object
    BY <1>1, <1>3
  <2> QED
    BY <1>2, <1>3, <2>1
<1>5. DOMAIN kept = 1 .. m
  BY <1>3
<1>6. \A k, l \in 1 .. m : at[k] = at[l] => k = l
  <2>1. TAKE k, l \in 1 .. m
  <2>2. at[k] \in Int /\ at[l] \in Int
    BY <1>1, <1>3
  <2>3. ~ (k < l) /\ ~ (l < k) => k = l
    OBVIOUS
  <2> QED
    BY <1>3, <2>2, <2>3
<1> QED
  BY <1>3, <1>4, <1>5, <1>6

-----------------------------------------------------------------------------
(* The invariant.                                                           *)

Adding  == dialog = "edit" /\ editedObj.id = Empty
Free(n) == \A i \in DOMAIN bundle, type \in Types : bundle[i].id # <<type, n>>

(* No id carries a time that is yet to come, nor the time of an Add dialog  *)
(* that is open.                                                            *)
Fresh ==
  /\ Adding => now >= 1
  /\ \A n \in 1 .. MaxAdds : n > now \/ (n = now /\ Adding) => Free(n)

(* The type that an open dialog shows is one that its menu offers.          *)
Offered == dialog = "edit" => editedObj.type \in uniqueTypes(bundle) \cup {Empty}

IInv == TypeOK /\ IdsUnique /\ EditedIsInBundle /\ Fresh /\ Offered

(* Every object of the bundle has an id and may be held by the dialog.      *)
LEMMA Named == Object \subseteq Draft /\ Id \subseteq Ref /\ Empty \notin Id
BY IdAssumption DEF Object, Draft, Ref

LEMMA InitIInv == Init => IInv
<1> SUFFICES ASSUME Init PROVE IInv
  OBVIOUS
<1>1. /\ bundle \in Seq(Object) /\ Ids(bundle) \subseteq Uuid /\ IdsUnique
      /\ dialog = "none" /\ editedObj = NoDraft /\ objectToDelete = Empty
      /\ filter = Empty /\ now = 0
  BY BundlesAssumption DEF Init, IdsUnique
<1>2. NoDraft \in Draft /\ Empty \in Ref
  BY DEF NoDraft, Draft, Ref
<1>3. TypeOK
  BY <1>1, <1>2, AddsBound DEF TypeOK
<1>4. \A n \in 1 .. MaxAdds : Free(n)
  <2>1. \A type \in Types, n \in 1 .. MaxAdds : <<type, n>> \notin Uuid
    BY IdAssumption
  <2>2. \A i \in DOMAIN bundle : bundle[i].id \in Uuid
    BY <1>1 DEF Ids
  <2> QED
    BY <2>1, <2>2 DEF Free
<1> QED
  BY <1>1, <1>3, <1>4 DEF IInv, EditedIsInBundle, Fresh, Adding, Offered

(* Steps that open, fill or close a dialog leave the bundle as it is.       *)
LEMMA SameBundle ==
  ASSUME IInv, bundle' = bundle
  PROVE  /\ IdsUnique' /\ bundle' \in Seq(Object)
         /\ Ids(bundle)' = Ids(bundle) /\ uniqueTypes(bundle)' = uniqueTypes(bundle)
         /\ \A n \in 1 .. MaxAdds : Free(n)' = Free(n)
BY DEF IInv, TypeOK, IdsUnique, Ids, uniqueTypes, Free

-----------------------------------------------------------------------------
(* The dialogs.                                                             *)

(* What a step has to establish that leaves the bundle alone.               *)
LEMMA DialogStep ==
  ASSUME IInv, bundle' = bundle, dialog' \in {"none", "edit", "delete"},
         editedObj' \in Draft, objectToDelete' \in Ref, filter' \in Types \cup {Empty},
         now' \in now .. MaxAdds,
         dialog' = "edit" =>
           /\ editedObj'.id # Empty => editedObj'.id \in Ids(bundle)
           /\ editedObj'.id = Empty => now' >= 1 /\ (now' > now \/ Adding)
           /\ editedObj'.type \in uniqueTypes(bundle) \cup {Empty}
  PROVE  IInv'
<1>1. now \in Nat /\ now' \in Nat /\ now <= now' /\ now' \in 0 .. MaxAdds
  BY AddsBound DEF IInv, TypeOK
<1>2. TypeOK'
  BY <1>1, SameBundle DEF TypeOK
<1>3. EditedIsInBundle' /\ Offered' /\ IdsUnique'
  BY SameBundle DEF EditedIsInBundle, Offered
<1>4. Fresh'
  <2>1. Adding' => now' >= 1 /\ (now' > now \/ Adding)
    BY DEF Adding
  <2>2. ASSUME NEW n \in 1 .. MaxAdds, n > now' \/ (n = now' /\ Adding')
        PROVE  Free(n)'
    <3>1. n > now \/ (n = now /\ Adding)
      BY <1>1, <2>1, <2>2
    <3>2. Free(n)
      BY <3>1 DEF IInv, Fresh
    <3> QED
      BY <3>2, SameBundle
  <2> QED
    BY <2>1, <2>2 DEF Fresh
<1> QED
  BY <1>2, <1>3, <1>4 DEF IInv

LEMMA OpenStep ==
  ASSUME IInv, \/ handleAdd
               \/ \E obj \in filteredObjects : handleEdit(obj) \/ handleDelete(obj.id)
  PROVE  IInv'
<1>1. now \in 0 .. MaxAdds /\ editedObj \in Draft /\ objectToDelete \in Ref
      /\ filter \in Types \cup {Empty}
  BY DEF IInv, TypeOK
<1>2. NoDraft \in Draft /\ NoDraft.id = Empty /\ NoDraft.type = Empty
  BY DEF NoDraft, Draft, Ref
<1>3. CASE handleAdd
  <2>1. now' = now + 1 /\ now' \in now .. MaxAdds /\ now' >= 1 /\ now' > now
    BY <1>1, <1>3, AddsBound DEF handleAdd
  <2> QED
    BY <1>1, <1>2, <1>3, <2>1, DialogStep DEF handleAdd
<1>4. ASSUME NEW obj \in filteredObjects, handleEdit(obj) \/ handleDelete(obj.id)
      PROVE  IInv'
  <2>1. PICK i \in DOMAIN bundle : bundle[i] = obj
    BY DEF filteredObjects
  <2>2. obj \in Object /\ obj.id \in Ids(bundle) /\ obj.type \in uniqueTypes(bundle)
    BY <2>1 DEF IInv, TypeOK, Ids, uniqueTypes
  <2>3. obj \in Draft /\ obj.id \in Ref /\ obj.id # Empty
    BY <2>2, Named DEF Object
  <2>4. now \in now .. MaxAdds
    BY <1>1, AddsBound
  <2> QED
    BY <1>1, <1>4, <2>2, <2>3, <2>4, DialogStep DEF handleEdit, handleDelete
<1> QED
  BY <1>3, <1>4

LEMMA FillStep ==
  ASSUME IInv, \/ \E type \in Types \cup {Empty} : SelectType(type) \/ handleFilterChange(type)
               \/ \E ends \in Picked : SetRefs(ends[1], ends[2])
               \/ Cancel \/ Remount
  PROVE  IInv'
<1>1. now \in 0 .. MaxAdds /\ editedObj \in Draft /\ objectToDelete \in Ref
      /\ filter \in Types \cup {Empty} /\ now \in now .. MaxAdds
  BY AddsBound DEF IInv, TypeOK
<1>2. NoDraft \in Draft /\ Empty \in Ref
  BY DEF NoDraft, Draft, Ref
<1>3. dialog = "edit" =>
        /\ editedObj.id # Empty => editedObj.id \in Ids(bundle)
        /\ editedObj.id = Empty => now >= 1 /\ Adding
        /\ editedObj.type \in uniqueTypes(bundle) \cup {Empty}
  BY DEF IInv, EditedIsInBundle, Fresh, Offered, Adding
<1>4. CASE Cancel \/ Remount \/ \E type \in Types \cup {Empty} : handleFilterChange(type)
  BY <1>1, <1>2, <1>3, <1>4, DialogStep DEF Cancel, Remount, handleFilterChange
<1>5. ASSUME NEW type \in Types \cup {Empty}, SelectType(type) PROVE IInv'
  <2>1. /\ editedObj' \in Draft /\ editedObj'.id = editedObj.id /\ editedObj'.type = type
        /\ type \in uniqueTypes(bundle) \cup {Empty} /\ dialog = "edit"
    BY <1>1, <1>5 DEF SelectType, Draft
  <2> QED
    BY <1>1, <1>3, <1>5, <2>1, DialogStep DEF SelectType
<1>6. ASSUME NEW ends \in Picked, SetRefs(ends[1], ends[2]) PROVE IInv'
  <2>1. ends[1] \in Ref /\ ends[2] \in Ref
    BY PickedAssumption
  <2>2. /\ editedObj' \in Draft /\ editedObj'.id = editedObj.id
        /\ editedObj'.type = editedObj.type /\ dialog = "edit"
    BY <1>1, <1>6, <2>1 DEF SetRefs, Draft
  <2> QED
    BY <1>1, <1>3, <1>6, <2>2, DialogStep DEF SetRefs
<1> QED
  BY <1>4, <1>5, <1>6


-----------------------------------------------------------------------------
(* Saving and deleting.                                                     *)

(* After a step that closes the dialog, ids and types are to be checked.    *)
LEMMA ClosingStep ==
  ASSUME IInv, dialog' = "none", editedObj' \in Draft, objectToDelete' \in Ref,
         filter' = filter, now' = now, bundle' \in Seq(Object), IdsUnique',
         \A n \in 1 .. MaxAdds : n > now => Free(n)'
  PROVE  IInv'
<1>1. TypeOK'
  BY DEF IInv, TypeOK
<1> QED
  BY <1>1 DEF IInv, EditedIsInBundle, Fresh, Adding, Offered

LEMMA Replaces ==
  ASSUME IInv, handleSave, editedObj.id # Empty
  PROVE  IInv' /\ uniqueTypes(bundle') \subseteq uniqueTypes(bundle)
<1>1. /\ bundle \in Seq(Object) /\ editedObj \in Draft /\ objectToDelete \in Ref
      /\ dialog = "edit" /\ editedObj.type # Empty
  BY DEF IInv, TypeOK, handleSave
<1>2. editedObj \in Object
  BY <1>1 DEF Draft, Object, Ref
<1>3. bundle' = [i \in DOMAIN bundle |->
                   IF bundle[i].id = editedObj.id THEN editedObj ELSE bundle[i]]
  BY DEF handleSave, updatedObj
<1>4. bundle' \in Seq(Object) /\ DOMAIN bundle' = DOMAIN bundle
  BY <1>1, <1>2, <1>3
<1>5. \A i \in DOMAIN bundle : bundle'[i].id = bundle[i].id /\ bundle'[i] \in {editedObj, bundle[i]}
  BY <1>3
<1>6. IdsUnique'
  BY <1>4, <1>5 DEF IInv, IdsUnique
<1>7. \A n \in 1 .. MaxAdds : n > now => Free(n)'
  BY <1>4, <1>5 DEF IInv, Fresh, Free
<1>8. NoDraft \in Draft
  BY DEF NoDraft, Draft, Ref
<1>9. IInv'
  BY <1>1, <1>4, <1>6, <1>7, <1>8, ClosingStep DEF handleSave
<1>10. editedObj.type \in uniqueTypes(bundle)
  BY <1>1 DEF IInv, Offered
<1>11. uniqueTypes(bundle') \subseteq uniqueTypes(bundle)
  BY <1>4, <1>5, <1>10 DEF uniqueTypes
<1> QED
  BY <1>9, <1>11

LEMMA Appends ==
  ASSUME IInv, handleSave, editedObj.id = Empty
  PROVE  IInv' /\ uniqueTypes(bundle') \subseteq uniqueTypes(bundle)
<1>1. /\ bundle \in Seq(Object) /\ editedObj \in Draft /\ objectToDelete \in Ref
      /\ dialog = "edit" /\ editedObj.type # Empty /\ now \in 0 .. MaxAdds
  BY DEF IInv, TypeOK, handleSave
<1>2. now \in 1 .. MaxAdds /\ Free(now) /\ now \in Nat
  BY <1>1, AddsBound DEF IInv, Fresh, Adding
<1> DEFINE id  == <<editedObj.type, now>>
           obj == [editedObj EXCEPT !.id = id]
<1>3. editedObj.type \in Types /\ id \in Id
  BY <1>1, <1>2 DEF Draft, Id
<1>4. obj \in Object /\ obj.id = id /\ obj.type = editedObj.type
  BY <1>1, <1>3 DEF Draft, Object
<1>5. bundle' = Append(bundle, obj)
  BY <1>1 DEF handleSave, updatedObj, NewId
<1> HIDE DEF obj
<1>6. /\ bundle' \in Seq(Object) /\ Len(bundle) \in Nat
      /\ DOMAIN bundle = 1 .. Len(bundle) /\ DOMAIN bundle' = 1 .. (Len(bundle) + 1)
      /\ \A i \in DOMAIN bundle : bundle'[i] = bundle[i]
      /\ bundle'[Len(bundle) + 1] = obj
  BY <1>1, <1>4, <1>5
<1>7. \A j \in DOMAIN bundle' : j \in DOMAIN bundle \/ bundle'[j] = obj
  BY <1>6
<1>8. \A i \in DOMAIN bundle : bundle[i].id # id
  BY <1>2, <1>3 DEF Free
<1>9. IdsUnique'
  <2>1. SUFFICES ASSUME NEW i \in DOMAIN bundle', NEW j \in DOMAIN bundle',
                        bundle'[i].id = bundle'[j].id
                 PROVE  i = j
    BY DEF IdsUnique
  <2>2. CASE i \in DOMAIN bundle /\ j \in DOMAIN bundle
    BY <1>6, <2>1, <2>2 DEF IInv, IdsUnique
  <2>3. CASE i \notin DOMAIN bundle /\ j \notin DOMAIN bundle
    BY <1>6, <2>3
  <2>4. CASE i \in DOMAIN bundle /\ j \notin DOMAIN bundle
    BY <1>4, <1>6, <1>7, <1>8, <2>1, <2>4
  <2>5. CASE i \notin DOMAIN bundle /\ j \in DOMAIN bundle
    BY <1>4, <1>6, <1>7, <1>8, <2>1, <2>5
  <2> QED
    BY <2>2, <2>3, <2>4, <2>5
<1>10. ASSUME NEW n \in 1 .. MaxAdds, n > now PROVE Free(n)'
  <2>1. Free(n) /\ n # now
    BY <1>2, <1>10 DEF IInv, Fresh
  <2>2. ASSUME NEW type \in Types PROVE id # <<type, n>>
    BY <2>1
  <2> QED
    BY <1>4, <1>6, <1>7, <2>1, <2>2 DEF Free
<1>11. NoDraft \in Draft
  BY DEF NoDraft, Draft, Ref
<1>12. IInv'
  BY <1>1, <1>6, <1>9, <1>10, <1>11, ClosingStep DEF handleSave
<1>13. editedObj.type \in uniqueTypes(bundle)
  BY <1>1 DEF IInv, Offered
<1>14. uniqueTypes(bundle') \subseteq uniqueTypes(bundle)
  BY <1>4, <1>6, <1>7, <1>13 DEF uniqueTypes
<1> QED
  BY <1>12, <1>14

(* What confirmDelete leaves.                                               *)
LEMMA Deletes ==
  ASSUME IInv, confirmDelete
  PROVE  /\ bundle' \in Seq(Object)
         /\ \E at \in [DOMAIN bundle' -> {i \in DOMAIN bundle : bundle[i].id # objectToDelete}] :
              /\ \A k \in DOMAIN bundle' : bundle'[k] = bundle[at[k]]
              /\ \A k, l \in DOMAIN bundle' : at[k] = at[l] => k = l
              /\ \A i \in DOMAIN bundle :
                   bundle[i].id # objectToDelete => \E k \in DOMAIN bundle' : at[k] = i
<1> DEFINE K == {i \in DOMAIN bundle : bundle[i].id # objectToDelete}
<1>1. bundle \in Seq(Object) /\ K \in SUBSET DOMAIN bundle /\ bundle' = ObjectsAt(bundle, K)
  BY DEF IInv, TypeOK, confirmDelete
<1>2. \A i \in DOMAIN bundle : bundle[i].id # objectToDelete => i \in K
  OBVIOUS
<1> HIDE DEF K
<1>3. /\ bundle' \in Seq(Object)
      /\ \E at \in [DOMAIN bundle' -> K] :
           /\ \A k \in DOMAIN bundle' : bundle'[k] = bundle[at[k]]
           /\ \A k, l \in DOMAIN bundle' : at[k] = at[l] => k = l
           /\ \A i \in K : \E k \in DOMAIN bundle' : at[k] = i
  BY <1>1, KeptObjects
<1> QED
  BY <1>2, <1>3 DEF K

LEMMA DeleteStep ==
  ASSUME IInv, confirmDelete
  PROVE  IInv' /\ uniqueTypes(bundle') \subseteq uniqueTypes(bundle)
<1>1. PICK at \in [DOMAIN bundle' -> DOMAIN bundle] :
        /\ \A k \in DOMAIN bundle' : bundle'[k] = bundle[at[k]]
        /\ \A k, l \in DOMAIN bundle' : at[k] = at[l] => k = l
  BY Deletes
<1>2. IdsUnique'
  BY <1>1 DEF IInv, IdsUnique
<1>3. \A n \in 1 .. MaxAdds : n > now => Free(n)'
  BY <1>1 DEF IInv, Fresh, Free
<1>4. bundle' \in Seq(Object) /\ editedObj \in Draft /\ Empty \in Ref
  BY Deletes DEF IInv, TypeOK, Ref
<1>5. IInv'
  BY <1>2, <1>3, <1>4, ClosingStep DEF confirmDelete
<1>6. uniqueTypes(bundle') \subseteq uniqueTypes(bundle)
  BY <1>1 DEF uniqueTypes
<1> QED
  BY <1>5, <1>6


LEMMA NextIInv ==
  ASSUME IInv, [Next]_vars
  PROVE  IInv' /\ uniqueTypes(bundle') \subseteq uniqueTypes(bundle)
<1>1. CASE UNCHANGED vars
  BY <1>1 DEF vars, IInv, TypeOK, IdsUnique, EditedIsInBundle, Ids, Fresh, Adding, Free,
              Offered, uniqueTypes
<1>2. CASE handleSave
  BY <1>2, Replaces, Appends
<1>3. CASE confirmDelete
  BY <1>3, DeleteStep
<1>4. CASE \/ handleAdd
           \/ \E obj \in filteredObjects : handleEdit(obj) \/ handleDelete(obj.id)
  BY <1>4, OpenStep DEF handleAdd, handleEdit, handleDelete
<1>5. CASE \/ \E type \in Types \cup {Empty} : SelectType(type) \/ handleFilterChange(type)
           \/ \E ends \in Picked : SetRefs(ends[1], ends[2])
           \/ Cancel \/ Remount
  <2>1. bundle' = bundle
    BY <1>5 DEF SelectType, handleFilterChange, SetRefs, Cancel, Remount
  <2> QED
    BY <1>5, <2>1, FillStep
<1> QED
  BY <1>1, <1>2, <1>3, <1>4, <1>5 DEF Next

THEOREM EditorInvariant == Spec => []IInv
<1>1. IInv /\ [Next]_vars => IInv'
  BY NextIInv
<1> QED
  BY <1>1, InitIInv, PTL DEF Spec

-----------------------------------------------------------------------------
(* Theorems.                                                                *)

(* What is stored has a type and an id, however the draft of the dialog     *)
(* came about (ManageView.js, lines 55-74).                                 *)
THEOREM EditorTypes == Spec => []TypeOK
<1>1. IInv => TypeOK
  BY DEF IInv
<1> QED
  BY <1>1, EditorInvariant, PTL

(* Ids stay unique however many Add dialogs are opened, cancelled and saved *)
(* in whatever order: the time in a new id is later than every time used,   *)
(* and a dialog that is reopened does not save under the time of an earlier *)
(* one (ManageView.js, lines 31-34 and 55-65).                              *)
THEOREM IdsStayUnique == Spec => []IdsUnique
<1>1. IInv => IdsUnique
  BY DEF IInv
<1> QED
  BY <1>1, EditorInvariant, PTL

(* An open edit dialog never holds an object that is gone: saving replaces  *)
(* one (ManageView.js, lines 36-39 and 55-74).                              *)
THEOREM EditsAreSaved == Spec => []EditedIsInBundle
<1>1. IInv => EditedIsInBundle
  BY DEF IInv
<1> QED
  BY <1>1, EditorInvariant, PTL

(* No type that has left the bundle comes back (ManageView.js, lines 55-74  *)
(* and the type menu made from uniqueTypes, line 97).                       *)
THEOREM TypesOnlyLeave == Spec => TypesNeverGrow
<1>1. IInv /\ [Next]_vars => [uniqueTypes(bundle') \subseteq uniqueTypes(bundle)]_bundle
  BY NextIInv
<1> QED
  BY <1>1, EditorInvariant, PTL DEF Spec, TypesNeverGrow

(* Deleting an object cuts exactly the links at it out of the graph, though *)
(* the bundle keeps the relationships (ManageView.js, lines 46-53, with     *)
(* GraphView's two filters).                                                *)
THEOREM DeletionsCutLinks == Spec => DeleteCutsItsLinksOnly
<1>1. ASSUME IInv, confirmDelete
      PROVE  filteredLinks(bundle') =
               {l \in filteredLinks(bundle) :
                  objectToDelete \notin {l.rel, l.source, l.target}}
  <2>1. PICK at \in [DOMAIN bundle' ->
                       {i \in DOMAIN bundle : bundle[i].id # objectToDelete}] :
          /\ \A k \in DOMAIN bundle' : bundle'[k] = bundle[at[k]]
          /\ \A i \in DOMAIN bundle :
               bundle[i].id # objectToDelete => \E k \in DOMAIN bundle' : at[k] = i
    BY <1>1, Deletes
  <2>2. \A k \in DOMAIN bundle' :
          /\ at[k] \in DOMAIN bundle /\ bundle[at[k]].id # objectToDelete
          /\ bundle'[k] = bundle[at[k]]
    BY <2>1
  <2>3. \A i \in DOMAIN bundle :
          bundle[i].id # objectToDelete => \E k \in DOMAIN bundle' : bundle'[k] = bundle[i]
    BY <2>1
  <2>4. nodeIds(bundle') = nodeIds(bundle) \ {objectToDelete}
    BY <2>2, <2>3 DEF nodeIds
  <2>5. \A o : Link(o).rel = o.id /\ Link(o).source = o.source /\ Link(o).target = o.target
    BY DEF Link
  <2>6. ASSUME NEW l \in filteredLinks(bundle')
        PROVE  l \in filteredLinks(bundle) /\ objectToDelete \notin {l.rel, l.source, l.target}
    <3>1. PICK k \in DOMAIN bundle' :
            /\ l = Link(bundle'[k]) /\ bundle'[k].type = relationship
            /\ {bundle'[k].source, bundle'[k].target} \subseteq nodeIds(bundle')
      BY <2>6 DEF filteredLinks
    <3>2. PICK i \in DOMAIN bundle : bundle'[k] = bundle[i] /\ bundle[i].id # objectToDelete
      BY <2>2
    <3>3. {bundle[i].source, bundle[i].target} \subseteq nodeIds(bundle) \ {objectToDelete}
      BY <2>4, <3>1, <3>2
    <3>4. l \in filteredLinks(bundle)
      BY <3>1, <3>2, <3>3 DEF filteredLinks
    <3> QED
      BY <2>5, <3>1, <3>2, <3>3, <3>4
  <2>7. ASSUME NEW l \in filteredLinks(bundle),
               objectToDelete \notin {l.rel, l.source, l.target}
        PROVE  l \in filteredLinks(bundle')
    <3>1. PICK i \in DOMAIN bundle :
            /\ l = Link(bundle[i]) /\ bundle[i].type = relationship
            /\ {bundle[i].source, bundle[i].target} \subseteq nodeIds(bundle)
      BY <2>7 DEF filteredLinks
    <3>2. objectToDelete \notin {bundle[i].id, bundle[i].source, bundle[i].target}
      BY <2>5, <2>7, <3>1
    <3>3. PICK k \in DOMAIN bundle' : bundle'[k] = bundle[i]
      BY <2>3, <3>2
    <3>4. {bundle'[k].source, bundle'[k].target} \subseteq nodeIds(bundle')
      BY <2>4, <3>1, <3>2, <3>3
    <3> QED
      BY <3>1, <3>3, <3>4 DEF filteredLinks
  <2> QED
    BY <2>6, <2>7
<1>2. IInv => [confirmDelete =>
                 filteredLinks(bundle') =
                   {l \in filteredLinks(bundle) :
                      objectToDelete \notin {l.rel, l.source, l.target}}]_vars
  BY <1>1
<1> QED
  BY <1>2, EditorInvariant, PTL DEF DeleteCutsItsLinksOnly


=============================================================================
