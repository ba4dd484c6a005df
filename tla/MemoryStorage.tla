---------------------------- MODULE MemoryStorage ----------------------------
(***************************************************************************)
(* storages.Memory (internal/sparkl/storages/memory.go): a slice of        *)
(* entities and a map from URI to the last index it was added at.  Each    *)
(* call is one step: additions come from one goroutine, and a mutex guards *)
(* the appends.                                                            *)
(***************************************************************************)
EXTENDS Integers, Sequences

CONSTANTS Uri, Path, Slot, Value, NoEntity,
          NoParent  \* the empty label

VARIABLES entities, lookup
memoryVars == <<entities, lookup>>

\* Load, for every URI.
MemoryEntity == [u \in Uri |-> IF u \in DOMAIN lookup THEN entities[lookup[u]].entity ELSE NoEntity]

Store == INSTANCE EntityStore WITH entity <- MemoryEntity

MemoryTypeOK ==
    /\ \A i \in DOMAIN entities :
          /\ entities[i].uri \in Uri
          /\ entities[i].entity.path \in Path
          /\ entities[i].entity.values \in [Slot -> Seq(Value)]
    /\ DOMAIN lookup \subseteq Uri
    /\ \A u \in DOMAIN lookup : lookup[u] \in DOMAIN entities

MemoryInit == entities = <<>> /\ lookup = [u \in {} |-> 0]

\* Mutant of MemoryAdd: a URI that is known keeps its index.
MemoryAdd_KeepsIndex(u, path) ==
    /\ entities' = Append(entities, [uri |-> u, entity |-> Store!Fresh(path)])
    /\ lookup' = [x \in DOMAIN lookup \union {u} |->
                    IF x \in DOMAIN lookup THEN lookup[x] ELSE Len(entities')]

\* Mutant of MemoryAdd: the length is taken one too late.
MemoryAdd_AfterAppend(u, path) ==
    /\ entities' = Append(entities, [uri |-> u, entity |-> Store!Fresh(path)])
    /\ lookup' = [x \in DOMAIN lookup \union {u} |-> IF x = u THEN Len(entities') + 1 ELSE lookup[x]]

MemoryAdd(u, path) ==
    /\ entities' = Append(entities, [uri |-> u, entity |-> Store!Fresh(path)])
    /\ lookup' = [x \in DOMAIN lookup \union {u} |-> IF x = u THEN Len(entities') ELSE lookup[x]]

\* Mutant of MemoryExtend: the entities share the lists of their slots.
MemoryExtend_Shared(u, s, v) ==
    /\ u \in DOMAIN lookup
    /\ entities' = [i \in DOMAIN entities |->
                      [uri |-> entities[i].uri, entity |-> Store!With(entities[i].entity, s, v)]]
    /\ UNCHANGED lookup

\* AddFieldValue and AddChild.
MemoryExtend(u, s, v) ==
    /\ u \in DOMAIN lookup
    /\ entities' = [entities EXCEPT ![lookup[u]] = [uri |-> @.uri, entity |-> Store!With(@.entity, s, v)]]
    /\ UNCHANGED lookup

\* Get: the URIs and the labels at an index (from 0) of their paths.
MemoryGet(i) == [n \in DOMAIN entities |->
    [label |-> entities[n].uri, parent |-> IF i > -1 THEN entities[n].entity.path[i + 1] ELSE NoParent]]

MemoryCount == Len(entities)
===============================================================================
