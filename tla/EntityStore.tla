----------------------------- MODULE EntityStore -----------------------------
(***************************************************************************)
(* What a storages.BundleStorage promises (internal/sparkl/storages/       *)
(* storages.go): it keeps one entity per URI, to whose fields and children *)
(* values are appended, one at a time and none lost, whoever appends to    *)
(* another field at the same time.  A field and a child bundle are both a  *)
(* slot here, a field value and a child label both a value.                *)
(***************************************************************************)
EXTENDS Sequences

CONSTANTS Uri, Path, Slot, Value,
          NoEntity  \* what Load answers for a URI that was not added

VARIABLE entity     \* uri -> its path and the values of its slots

Fresh(path) == [path |-> path, values |-> [s \in Slot |-> <<>>]]
With(e, s, v) == [path |-> e.path, values |-> [e.values EXCEPT ![s] = Append(@, v)]]

Init == entity = [u \in Uri |-> NoEntity]

\* An entity that is added again starts over.
Add(u, path) == entity' = [entity EXCEPT ![u] = Fresh(path)]

\* AddFieldValue and AddChild; without an entity they answer ErrNoEntity.
Extend(u, s, v) ==
    /\ entity[u] # NoEntity
    /\ entity' = [entity EXCEPT ![u] = With(@, s, v)]

Next == \E u \in Uri : \/ \E path \in Path : Add(u, path)
                       \/ \E s \in Slot, v \in Value : Extend(u, s, v)

Spec == Init /\ [][Next]_entity
===============================================================================
