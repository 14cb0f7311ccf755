---------------------------- MODULE BundleEditor ----------------------------
(***************************************************************************)
(* The web client's editor of one STIX bundle: ManageView edits it through *)
(* two modal dialogs, GraphView draws its relationships.  The bundle lives *)
(* in BundleContext and survives a change of view; the dialogs and filters *)
(* are state of ManageView, lost when it unmounts.                         *)
(*                                                                         *)
(* Of an object only id, type and the two references of a relationship are *)
(* kept.  The search and date filters only narrow the list further that    *)
(* the type filter narrows, and are left out.  Opening a dialog takes a    *)
(* user longer than a millisecond: Date.now() is read as a counter that    *)
(* every opened Add dialog advances.                                       *)
(***************************************************************************)
EXTENDS Integers, Sequences, FiniteSets

CONSTANTS
  Types,        (* the values of "type"                                    *)
  relationship, (* the type that GraphView draws as a link                 *)
  Uuid,         (* ids made elsewhere, or before this editor was loaded    *)
  Bundles,      (* the bundles BundleContext may start with                *)
  Picked,       (* bound: the ends users pick or type in, as pairs         *)
  MaxAdds,      (* bound: Add dialogs opened in a run                      *)
  Empty         (* '' or undefined: no id, no type, no reference, no filter *)

Id     == Uuid \cup (Types \X (1 .. MaxAdds))
Ref    == Id \cup {Empty}
Object == [id: Id, type: Types, source: Ref, target: Ref]
(* What the edit dialog holds: an object, or one that is yet to be named.   *)
Draft  == [id: Ref, type: Types \cup {Empty}, source: Ref, target: Ref]

Ids(objects) == {objects[i].id : i \in DOMAIN objects}

ASSUME TypesAssumption   == relationship \in Types /\ Empty \notin Types
ASSUME IdAssumption      == Empty \notin Id /\ Uuid \cap (Types \X (1 .. MaxAdds)) = {}
ASSUME PickedAssumption  == Picked \subseteq Ref \X Ref
ASSUME BundlesAssumption ==
  \A b \in Bundles :
    /\ b \in Seq(Object) /\ Ids(b) \subseteq Uuid
    /\ \A i, j \in DOMAIN b : b[i].id = b[j].id => i = j
ASSUME AddsBound == MaxAdds \in Nat

VARIABLES
  bundle,         (* bundle.objects                                        *)
  dialog,         (* the open dialog: dialogOpen, deleteDialogOpen         *)
  editedObj,      (* kept when the dialog is cancelled                     *)
  objectToDelete, (* likewise                                              *)
  filter,         (* filters.type                                          *)
  now             (* Date.now()                                            *)

vars == <<bundle, dialog, editedObj, objectToDelete, filter, now>>

NoDraft    == [id |-> Empty, type |-> Empty, source |-> Empty, target |-> Empty]
uniqueTypes(objects) == {objects[i].type : i \in DOMAIN objects}

Init ==
  /\ bundle \in Bundles
  /\ dialog = "none" /\ editedObj = NoDraft /\ objectToDelete = Empty
  /\ filter = Empty
  /\ now = 0

-----------------------------------------------------------------------------
(* Opening the dialogs, from the list of objects that pass the filter.      *)
filteredObjects == {bundle[i] : i \in {j \in DOMAIN bundle : filter \in {Empty, bundle[j].type}}}

(* Mutants: a dialog that is reset only when it holds nothing, as the       *)
(* useEffect next to it does, and one that starts with the filter's type.   *)
handleAddKeepsDraft ==
  /\ dialog = "none" /\ now < MaxAdds
  /\ dialog' = "edit"
  /\ now' = now + 1
  /\ UNCHANGED <<bundle, editedObj, objectToDelete, filter>>

handleAddFromFilter ==
  /\ dialog = "none" /\ now < MaxAdds
  /\ editedObj' = [NoDraft EXCEPT !.type = filter]
  /\ dialog' = "edit"
  /\ now' = now + 1
  /\ UNCHANGED <<bundle, objectToDelete, filter>>

handleAdd ==
  /\ dialog = "none" /\ now < MaxAdds
  /\ editedObj' = NoDraft
  /\ dialog' = "edit"
  /\ now' = now + 1
  /\ UNCHANGED <<bundle, objectToDelete, filter>>

handleEdit(obj) ==
  /\ dialog = "none"
  /\ editedObj' = obj
  /\ dialog' = "edit"
  /\ UNCHANGED <<bundle, objectToDelete, filter, now>>

handleDelete(id) ==
  /\ dialog = "none"
  /\ objectToDelete' = id
  /\ dialog' = "delete"
  /\ UNCHANGED <<bundle, editedObj, filter, now>>

Cancel ==
  /\ dialog # "none"
  /\ dialog' = "none"
  /\ UNCHANGED <<bundle, editedObj, objectToDelete, filter, now>>

-----------------------------------------------------------------------------
(* The edit dialog.                                                         *)

(* The type menu offers the types the bundle has now.                       *)
SelectType(type) ==
  /\ dialog = "edit"
  /\ type \in uniqueTypes(bundle) \cup {Empty}
  /\ editedObj' = [editedObj EXCEPT !.type = type]
  /\ UNCHANGED <<bundle, dialog, objectToDelete, filter, now>>

(* A relationship's ends are chosen among the bundle's ids or typed in, and *)
(* typing is not checked: they may be any id.                               *)
SetRefs(source, target) ==
  /\ dialog = "edit" /\ editedObj.type = relationship
  /\ editedObj' = [editedObj EXCEPT !.source = source, !.target = target]
  /\ UNCHANGED <<bundle, dialog, objectToDelete, filter, now>>

(* Mutant: numbered by the size of the bundle instead of the time.          *)
NewIdByCount(type) == <<type, Len(bundle)>>
NewId(type)        == <<type, now>>

updatedObj ==
  IF editedObj.id # Empty THEN editedObj ELSE [editedObj EXCEPT !.id = NewId(editedObj.type)]

(* Mutant: saves a draft that has no type.                                  *)
handleSaveUntyped ==
  /\ dialog = "edit"
  /\ bundle' = IF editedObj.id # Empty
                 THEN [i \in DOMAIN bundle |->
                         IF bundle[i].id = editedObj.id THEN updatedObj ELSE bundle[i]]
                 ELSE Append(bundle, updatedObj)
  /\ dialog' = "none"
  /\ editedObj' = NoDraft
  /\ UNCHANGED <<objectToDelete, filter, now>>

handleSave ==
  /\ dialog = "edit" /\ editedObj.type # Empty
  /\ bundle' = IF editedObj.id # Empty
                 THEN [i \in DOMAIN bundle |->
                         IF bundle[i].id = editedObj.id THEN updatedObj ELSE bundle[i]]
                 ELSE Append(bundle, updatedObj)
  /\ dialog' = "none"
  /\ editedObj' = NoDraft
  /\ UNCHANGED <<objectToDelete, filter, now>>

-----------------------------------------------------------------------------
(* Array.filter: the objects at some positions, in their order.  It is what *)
(* SelectSeq computes, without its recursion.                               *)
ObjectsAt(objects, positions) ==
  LET place(i) == Cardinality({j \in positions : j <= i})
  IN  [k \in 1 .. Cardinality(positions) |-> objects[CHOOSE i \in positions : place(i) = k]]

confirmDelete ==
  /\ dialog = "delete"
  /\ bundle' = ObjectsAt(bundle, {i \in DOMAIN bundle : bundle[i].id # objectToDelete})
  /\ dialog' = "none"
  /\ objectToDelete' = Empty
  /\ UNCHANGED <<editedObj, filter, now>>

(* The filter menu, its chip and "Clear Filters".                           *)
handleFilterChange(type) ==
  /\ dialog = "none"
  /\ type \in uniqueTypes(bundle) \cup {Empty}
  /\ filter' = type
  /\ UNCHANGED <<bundle, dialog, editedObj, objectToDelete, now>>

(* Another route is shown, by the sidebar or the browser's back button, and *)
(* ManageView is mounted again later.                                       *)
Remount ==
  /\ dialog' = "none" /\ editedObj' = NoDraft /\ objectToDelete' = Empty
  /\ filter' = Empty
  /\ UNCHANGED <<bundle, now>>

Next ==
  \/ handleAdd \/ handleSave \/ confirmDelete \/ Cancel \/ Remount
  \/ \E obj \in filteredObjects : handleEdit(obj) \/ handleDelete(obj.id)
  \/ \E type \in Types \cup {Empty} : SelectType(type) \/ handleFilterChange(type)
  \/ \E ends \in Picked : SetRefs(ends[1], ends[2])

Spec == Init /\ [][Next]_vars

-----------------------------------------------------------------------------
(* GraphView: the nodes and, among them, the links.                         *)
nodeIds(objects) ==
  {objects[i].id : i \in {j \in DOMAIN objects : objects[j].type # relationship}}

Link(obj) == [rel |-> obj.id, source |-> obj.source, target |-> obj.target]

(* Mutant: only the source is looked up.                                    *)
filteredLinksBySource(objects) ==
  {Link(objects[i]) : i \in {j \in DOMAIN objects :
     objects[j].type = relationship /\ objects[j].source \in nodeIds(objects)}}

filteredLinks(objects) ==
  {Link(objects[i]) : i \in {j \in DOMAIN objects :
     /\ objects[j].type = relationship
     /\ {objects[j].source, objects[j].target} \subseteq nodeIds(objects)}}

-----------------------------------------------------------------------------
(* Properties.                                                              *)

(* What is stored has a type and an id; a draft need not.                   *)
TypeOK ==
  /\ bundle \in Seq(Object)
  /\ dialog \in {"none", "edit", "delete"}
  /\ editedObj \in Draft
  /\ objectToDelete \in Ref
  /\ filter \in Types \cup {Empty}
  /\ now \in 0 .. MaxAdds

(* However dialogs are opened, cancelled and left, an id never names two    *)
(* objects, so that edit, delete, the list and the graph mean the same one. *)
IdsUnique == \A i, j \in DOMAIN bundle : bundle[i].id = bundle[j].id => i = j

(* Saving an edit is never lost: the object a dialog edits is still there,  *)
(* also when an earlier edit was cancelled and its object deleted since.    *)
EditedIsInBundle ==
  dialog = "edit" /\ editedObj.id # Empty => editedObj.id \in Ids(bundle)

(* The editor never brings a type back: once the last object of a type is   *)
(* deleted or retyped, no sequence of dialogs and filters can add one, and  *)
(* an emptied bundle stays empty.                                           *)
TypesNeverGrow == [][uniqueTypes(bundle') \subseteq uniqueTypes(bundle)]_bundle

(* Deleting an object takes it and the links at it out of the graph, and    *)
(* nothing else, although the relationships that refer to it stay behind in *)
(* the bundle.                                                              *)
DeleteCutsItsLinksOnly ==
  [][confirmDelete =>
       filteredLinks(bundle') =
         {l \in filteredLinks(bundle) :
            objectToDelete \notin {l.rel, l.source, l.target}}]_vars

=============================================================================
