---------------------------- MODULE StorageProofs ----------------------------
(***************************************************************************)
(* The storage in memory and the storage on disk implement the entity      *)
(* store of module EntityStore and answer Load alike, for every set of     *)
(* URIs, paths, slots and values: the lock of the disk engine keeps the    *)
(* record an update has read current until it is written back.             *)
(***************************************************************************)
EXTENDS Storages, SequenceTheorems, FunctionTheorems, FiniteSetTheorems, TLAPS

Entity == [path : Path, values : [Slot -> Seq(Value)]]
Update == [uri : Uri, value : Value, record : Entity]

\* The slice and its index: an index entry leads to an entity of its URI.
MemoryWellFormed ==
    /\ entities \in Seq([uri : Uri, entity : Entity])
    /\ DOMAIN lookup \subseteq Uri
    /\ \A u \in DOMAIN lookup : lookup[u] \in DOMAIN entities /\ entities[lookup[u]].uri = u

\* The records of the engine on disk.
DiskWellFormed ==
    /\ db \in [Uri -> Entity \union {NoEntity}]
    /\ count \in Nat
    /\ buffer \in [Slot -> Update \union {Idle}]
    /\ phase \in {"add", "fill", "final"}

\* The record an update is about to write is the stored one and one value.
UpdatesCurrent ==
    \A s \in Slot : buffer[s] # Idle =>
        /\ db[buffer[s].uri] # NoEntity
        /\ buffer[s].record = D!Store!With(db[buffer[s].uri], s, buffer[s].value)

\* Only one update holds the lock.
OneUpdate == \A s, t \in Slot : buffer[s] # Idle /\ buffer[t] # Idle => s = t

IInv ==
    /\ MemoryWellFormed /\ DiskWellFormed
    /\ UpdatesCurrent /\ OneUpdate
    /\ MemoryEntity = db

-------------------------------------------------------------------------------
\* Adding a value to an entity gives an entity, and a new entity is one.
LEMMA WithType ==
    ASSUME NEW e \in Entity, NEW s \in Slot, NEW v \in Value
    PROVE  /\ Store!With(e, s, v) \in Entity
           /\ D!Store!With(e, s, v) = Store!With(e, s, v)
  BY DEF Entity, Store!With, D!Store!With

\* A new entity of a storage is an entity with empty slots.
LEMMA FreshType ==
    ASSUME NEW p \in Path
    PROVE  /\ Store!Fresh(p) \in Entity
           /\ D!Store!Fresh(p) = Store!Fresh(p)
<1>1. [s \in Slot |-> <<>>] \in [Slot -> Seq(Value)]
  OBVIOUS
<1> QED BY <1>1 DEF Entity, Store!Fresh, D!Store!Fresh

-------------------------------------------------------------------------------
\* Memory.Add changes what Load answers for its URI and for no other.
LEMMA MemoryAddMaps ==
    ASSUME IInv, NEW p \in Path, MemoryAdd(UriOf(p), p)
    PROVE  /\ MemoryWellFormed'
           /\ MemoryEntity' = [MemoryEntity EXCEPT ![UriOf(p)] = Store!Fresh(p)]
<1> DEFINE u == UriOf(p)
           new == [uri |-> u, entity |-> Store!Fresh(p)]
<1>0. u \in Uri
  BY StoragesAssumption
<1>1. new \in [uri : Uri, entity : Entity]
  BY <1>0, FreshType
<1>2. entities \in Seq([uri : Uri, entity : Entity]) /\ entities' = Append(entities, new)
  BY DEF IInv, MemoryWellFormed, MemoryAdd
<1> HIDE DEF new, u
<1>3. /\ entities' \in Seq([uri : Uri, entity : Entity])
      /\ Len(entities') = Len(entities) + 1
      /\ entities'[Len(entities')] = new
      /\ \A i \in DOMAIN entities : i \in DOMAIN entities' /\ entities'[i] = entities[i]
      /\ Len(entities') \in DOMAIN entities'
  BY <1>1, <1>2
<1>4. lookup' = [x \in DOMAIN lookup \union {u} |-> IF x = u THEN Len(entities') ELSE lookup[x]]
  BY DEF MemoryAdd, u
<1>5. MemoryWellFormed'
  <2>1. new.uri = u
    BY DEF new
  <2> QED BY <2>1, <1>0, <1>3, <1>4 DEF IInv, MemoryWellFormed
<1>6. new.entity = Store!Fresh(p)
  BY DEF new
<1>7. ASSUME NEW x \in Uri
      PROVE  MemoryEntity'[x] = IF x = u THEN Store!Fresh(p) ELSE MemoryEntity[x]
  <2>1. CASE x = u
    BY <2>1, <1>0, <1>3, <1>4, <1>6 DEF MemoryEntity
  <2>2. CASE x # u /\ x \in DOMAIN lookup
    <3>1. lookup[x] \in DOMAIN entities
      BY <2>2 DEF IInv, MemoryWellFormed
    <3>2. x \in DOMAIN lookup' /\ lookup'[x] = lookup[x]
      BY <2>2, <1>4
    <3> QED BY <2>2, <3>1, <3>2, <1>3 DEF MemoryEntity
  <2>3. CASE x # u /\ x \notin DOMAIN lookup
    BY <2>3, <1>4 DEF MemoryEntity
  <2> QED BY <2>1, <2>2, <2>3
<1>8. MemoryEntity' = [MemoryEntity EXCEPT ![u] = Store!Fresh(p)]
  BY <1>0, <1>7 DEF MemoryEntity
<1> QED BY <1>5, <1>8 DEF u

\* Memory.AddFieldValue and AddChild change one slot of one entity.
LEMMA MemoryExtendMaps ==
    ASSUME IInv, NEW u \in Uri, NEW s \in Slot, NEW v \in Value, MemoryExtend(u, s, v)
    PROVE  /\ MemoryWellFormed'
           /\ MemoryEntity' = [MemoryEntity EXCEPT ![u] = Store!With(@, s, v)]
<1> DEFINE i == lookup[u]
           old == entities[i]
           new == [uri |-> u, entity |-> Store!With(old.entity, s, v)]
<1>1. u \in DOMAIN lookup /\ i \in DOMAIN entities /\ old.uri = u
  BY DEF IInv, MemoryWellFormed, MemoryExtend
<1>2. entities \in Seq([uri : Uri, entity : Entity])
  BY DEF IInv, MemoryWellFormed
<1>3. old \in [uri : Uri, entity : Entity]
  <2> HIDE DEF i
  <2>1. i \in 1..Len(entities)
    BY <1>1, <1>2
  <2> QED BY <2>1, <1>2, ElementOfSeq
<1>4. new \in [uri : Uri, entity : Entity]
  BY <1>3, WithType
<1>5. lookup' = lookup /\ entities' = [entities EXCEPT ![i] = new]
  BY <1>1, <1>3 DEF MemoryExtend
<1>6. new.uri = u /\ new.entity = Store!With(old.entity, s, v)
  OBVIOUS
<1>7. MemoryEntity[u] = old.entity
  BY <1>1 DEF MemoryEntity
<1> HIDE DEF new, old
<1>8. /\ entities' \in Seq([uri : Uri, entity : Entity])
      /\ DOMAIN entities' = DOMAIN entities
      /\ \A j \in DOMAIN entities : entities'[j] = IF j = i THEN new ELSE entities[j]
  BY <1>1, <1>2, <1>4, <1>5
<1>9. MemoryWellFormed'
  BY <1>1, <1>5, <1>6, <1>8 DEF IInv, MemoryWellFormed
<1>10. ASSUME NEW x \in Uri
       PROVE  MemoryEntity'[x] = IF x = u THEN Store!With(MemoryEntity[u], s, v) ELSE MemoryEntity[x]
  <2>1. CASE x = u
    BY <2>1, <1>1, <1>5, <1>6, <1>7, <1>8 DEF MemoryEntity
  <2>2. CASE x # u /\ x \in DOMAIN lookup
    <3>1. lookup[x] \in DOMAIN entities /\ lookup[x] # i
      BY <1>1, <2>2 DEF IInv, MemoryWellFormed, old
    <3> QED BY <2>2, <3>1, <1>5, <1>8 DEF MemoryEntity
  <2>3. CASE x # u /\ x \notin DOMAIN lookup
    BY <2>3, <1>5 DEF MemoryEntity
  <2> QED BY <2>1, <2>2, <2>3
<1>11. MemoryEntity' = [MemoryEntity EXCEPT ![u] = Store!With(@, s, v)]
  BY <1>10 DEF MemoryEntity
<1> QED BY <1>9, <1>11

-------------------------------------------------------------------------------
\* Two empty storages satisfy the invariant.
LEMMA Initial == Init => IInv
<1> SUFFICES ASSUME Init PROVE IInv
  OBVIOUS
<1> USE DEF Init, MemoryInit, D!DiskInit
<1>1. lookup = [u \in {} |-> 0] /\ DOMAIN lookup = {}
  OBVIOUS
<1>2. MemoryWellFormed
  BY <1>1 DEF MemoryWellFormed
<1>3. DiskWellFormed
  BY DEF DiskWellFormed
<1>4. UpdatesCurrent /\ OneUpdate
  BY DEF UpdatesCurrent, OneUpdate
<1>5. MemoryEntity = db
  BY <1>1 DEF MemoryEntity
<1> QED BY <1>2, <1>3, <1>4, <1>5 DEF IInv

\* A step that touches neither storage keeps the invariant and what Load answers.
LEMMA Unmoved ==
    ASSUME IInv, UNCHANGED <<entities, lookup, db, count, buffer>>, phase' \in {"add", "fill", "final"}
    PROVE  IInv' /\ MemoryEntity' = MemoryEntity
<1>1. MemoryWellFormed' /\ MemoryEntity' = MemoryEntity
  BY DEF IInv, MemoryWellFormed, MemoryEntity
<1>2. DiskWellFormed'
  BY DEF IInv, DiskWellFormed
<1>3. UpdatesCurrent' /\ OneUpdate'
  BY DEF IInv, UpdatesCurrent, OneUpdate, D!Store!With
<1> QED BY <1>1, <1>2, <1>3 DEF IInv

\* Add puts a new entity under its URI on disk, when no update holds the lock.
LEMMA AddEntityKeeps ==
    ASSUME IInv, NEW p \in Path, AddEntity(p)
    PROVE  IInv' /\ db' = [db EXCEPT ![UriOf(p)] = Store!Fresh(p)]
<1>1. MemoryAdd(UriOf(p), p) /\ D!DiskAdd(UriOf(p), p) /\ phase' = phase
  BY DEF AddEntity
<1>2. db' = [db EXCEPT ![UriOf(p)] = Store!Fresh(p)] /\ count' = count + 1 /\ buffer' = buffer
  BY <1>1, FreshType DEF D!DiskAdd
<1>3. \A s \in Slot : buffer[s] = Idle
  BY <1>1 DEF D!DiskAdd, D!Unlocked
<1>4. MemoryWellFormed' /\ MemoryEntity' = db'
  BY <1>1, <1>2, MemoryAddMaps DEF IInv
<1>5. DiskWellFormed'
  BY <1>1, <1>2, FreshType, StoragesAssumption DEF IInv, DiskWellFormed
<1>6. UpdatesCurrent' /\ OneUpdate'
  BY <1>2, <1>3 DEF UpdatesCurrent, OneUpdate
<1> QED BY <1>2, <1>4, <1>5, <1>6 DEF IInv

\* The read half of an update changes nothing that Load answers.
LEMMA BeginValueKeeps ==
    ASSUME IInv, NEW u \in Uri, NEW s \in Slot, NEW v \in Value, BeginValue(u, s, v)
    PROVE  IInv' /\ db' = db /\ MemoryEntity' = MemoryEntity
<1> DEFINE new == [uri |-> u, value |-> v, record |-> D!Store!With(db[u], s, v)]
<1>1. /\ \A t \in Slot : buffer[t] = Idle
      /\ db[u] # NoEntity
      /\ buffer' = [buffer EXCEPT ![s] = new]
      /\ UNCHANGED <<db, count, entities, lookup, phase>>
  BY DEF BeginValue, D!BeginUpdate, D!Unlocked, memoryVars
<1>2. db[u] \in Entity
  BY <1>1 DEF IInv, DiskWellFormed
<1>3. new \in Update
  BY <1>2, WithType DEF Update
<1>4. new.uri = u /\ new.value = v /\ new.record = D!Store!With(db[u], s, v)
  OBVIOUS
<1> HIDE DEF new
<1>5. MemoryWellFormed' /\ MemoryEntity' = MemoryEntity
  BY <1>1 DEF IInv, MemoryWellFormed, MemoryEntity
<1>6. DiskWellFormed'
  BY <1>1, <1>3 DEF IInv, DiskWellFormed
<1>7. buffer \in [Slot -> Update \union {Idle}]
  BY DEF IInv, DiskWellFormed
<1>8. \A t \in Slot : buffer'[t] = IF t = s THEN new ELSE Idle
  BY <1>1, <1>7
<1>9. UpdatesCurrent'
  BY <1>1, <1>4, <1>8 DEF UpdatesCurrent, D!Store!With
<1>10. OneUpdate'
  BY <1>8 DEF OneUpdate
<1> QED BY <1>1, <1>5, <1>6, <1>9, <1>10 DEF IInv

\* The write half of an update appends one value to what is stored now, not to
\* what was stored when the update began.
LEMMA EndValueKeeps ==
    ASSUME IInv, NEW s \in Slot, EndValue(s)
    PROVE  /\ IInv'
           /\ \E u \in Uri, v \in Value :
                 /\ db[u] # NoEntity
                 /\ db' = [db EXCEPT ![u] = Store!With(@, s, v)]
<1> DEFINE u == buffer[s].uri
           v == buffer[s].value
<1>1. /\ buffer[s] # Idle
      /\ db' = [db EXCEPT ![u] = buffer[s].record]
      /\ buffer' = [buffer EXCEPT ![s] = Idle]
      /\ count' = count /\ phase' = phase
      /\ MemoryExtend(u, s, v)
  BY DEF EndValue, D!EndUpdate
<1>2. buffer \in [Slot -> Update \union {Idle}] /\ db \in [Uri -> Entity \union {NoEntity}]
  BY DEF IInv, DiskWellFormed
<1>3. buffer[s] \in Update
  BY <1>1, <1>2
<1>4. u \in Uri /\ v \in Value /\ buffer[s].record \in Entity
  BY <1>3 DEF Update
<1>5. db[u] # NoEntity /\ buffer[s].record = D!Store!With(db[u], s, v)
  BY <1>1 DEF IInv, UpdatesCurrent
<1> HIDE DEF u, v
<1>6. db[u] \in Entity
  BY <1>2, <1>4, <1>5
<1>7. db' = [db EXCEPT ![u] = Store!With(@, s, v)]
  BY <1>1, <1>2, <1>4, <1>5, <1>6, WithType
<1>8. MemoryWellFormed' /\ MemoryEntity' = [MemoryEntity EXCEPT ![u] = Store!With(@, s, v)]
  BY <1>1, <1>4, MemoryExtendMaps
<1>9. MemoryEntity' = db'
  BY <1>7, <1>8 DEF IInv
<1>10. DiskWellFormed'
  BY <1>1, <1>2, <1>4 DEF IInv, DiskWellFormed
<1>11. \A t \in Slot : buffer'[t] = Idle
  BY <1>1, <1>2 DEF IInv, OneUpdate
<1>12. UpdatesCurrent' /\ OneUpdate'
  BY <1>11 DEF UpdatesCurrent, OneUpdate
<1> QED BY <1>4, <1>5, <1>7, <1>8, <1>9, <1>10, <1>12 DEF IInv

\* The invariant that makes the read-modify-write of the disk engine safe is
\* preserved by every step.
LEMMA Inductive == IInv /\ [Next]_vars => IInv'
<1> SUFFICES ASSUME IInv, [Next]_vars PROVE IInv'
  OBVIOUS
<1>1. ASSUME NEW p \in Path, AddEntity(p) PROVE IInv'
  BY <1>1, AddEntityKeeps
<1>2. ASSUME NEW u \in Uri, NEW s \in Slot, NEW v \in Value, BeginValue(u, s, v) PROVE IInv'
  BY <1>2, BeginValueKeeps
<1>3. ASSUME NEW s \in Slot, EndValue(s) PROVE IInv'
  BY <1>3, EndValueKeeps
<1>4. CASE StartFilling \/ FinalizeBoth
  <2>1. UNCHANGED <<entities, lookup, db, count, buffer>> /\ phase' \in {"add", "fill", "final"}
    BY <1>4 DEF StartFilling, FinalizeBoth, memoryVars
  <2> QED BY <2>1, Unmoved
<1>5. CASE Ended \/ UNCHANGED vars
  <2>1. UNCHANGED <<entities, lookup, db, count, buffer>> /\ phase' = phase
    BY <1>5 DEF Ended, vars, memoryVars
  <2>2. phase' \in {"add", "fill", "final"}
    BY <2>1 DEF IInv, DiskWellFormed
  <2> QED BY <2>1, <2>2, Unmoved
<1> QED BY <1>1, <1>2, <1>3, <1>4, <1>5 DEF Next

\* Every step is one of the entity store, or leaves what Load answers alone.
LEMMA AbstractStep == IInv /\ [Next]_vars => [D!Store!Next]_db /\ [Store!Next]_MemoryEntity
<1> SUFFICES ASSUME IInv, [Next]_vars PROVE [D!Store!Next]_db /\ [Store!Next]_MemoryEntity
  OBVIOUS
<1>0. MemoryEntity = db /\ MemoryEntity' = db'
  BY Inductive DEF IInv
<1>1. ASSUME NEW p \in Path, AddEntity(p) PROVE D!Store!Next /\ Store!Next
  <2>1. UriOf(p) \in Uri
    BY StoragesAssumption
  <2>2. db' = [db EXCEPT ![UriOf(p)] = Store!Fresh(p)] /\ D!Store!Fresh(p) = Store!Fresh(p)
    BY <1>1, AddEntityKeeps, FreshType
  <2>3. D!Store!Add(UriOf(p), p) /\ Store!Add(UriOf(p), p)
    BY <2>2, <1>0 DEF D!Store!Add, Store!Add
  <2> QED BY <2>1, <2>3 DEF D!Store!Next, Store!Next
<1>2. ASSUME NEW s \in Slot, EndValue(s) PROVE D!Store!Next /\ Store!Next
  <2>1. PICK u \in Uri, v \in Value : db[u] # NoEntity /\ db' = [db EXCEPT ![u] = Store!With(@, s, v)]
    BY <1>2, EndValueKeeps
  <2>2. D!Store!With(db[u], s, v) = Store!With(db[u], s, v)
    BY <2>1, WithType DEF IInv, DiskWellFormed
  <2>3. D!Store!Extend(u, s, v) /\ Store!Extend(u, s, v)
    BY <2>1, <2>2, <1>0 DEF D!Store!Extend, Store!Extend
  <2> QED BY <2>3 DEF D!Store!Next, Store!Next
<1>3. ASSUME NEW u \in Uri, NEW s \in Slot, NEW v \in Value, BeginValue(u, s, v)
      PROVE  db' = db /\ MemoryEntity' = MemoryEntity
  BY <1>3, BeginValueKeeps
<1>4. CASE StartFilling \/ FinalizeBoth \/ Ended \/ UNCHANGED vars
  <2>1. db' = db
    BY <1>4 DEF StartFilling, FinalizeBoth, Ended, vars
  <2> QED BY <2>1, <1>0
<1> QED BY <1>1, <1>2, <1>3, <1>4 DEF Next

-------------------------------------------------------------------------------
\* The inductive invariant of both engines.
THEOREM StorageInvariant == Spec => []IInv
<1>1. Init => IInv
  BY Initial
<1>2. IInv /\ [Next]_vars => IInv'
  BY Inductive
<1> QED BY <1>1, <1>2, PTL DEF Spec

\* Type correctness of the slice, the index, the records and the updates.
THEOREM StoragesTypeCorrect == Spec => []TypeOK
<1>1. IInv => TypeOK
  <2> SUFFICES ASSUME IInv PROVE TypeOK
    OBVIOUS
  <2>1. MemoryTypeOK
    <3>1. \A i \in DOMAIN entities : entities[i] \in [uri : Uri, entity : Entity]
      <4>1. entities \in Seq([uri : Uri, entity : Entity])
        BY DEF IInv, MemoryWellFormed
      <4>2. DOMAIN entities = 1..Len(entities)
        BY <4>1
      <4> QED BY <4>1, <4>2, ElementOfSeq
    <3>2. \A i \in DOMAIN entities : entities[i].uri \in Uri /\ entities[i].entity \in Entity
      BY <3>1
    <3> QED BY <3>2 DEF IInv, MemoryWellFormed, MemoryTypeOK, Entity
  <2>2. D!DiskTypeOK
    BY DEF IInv, DiskWellFormed, D!DiskTypeOK, Entity, Update
  <2> QED BY <2>1, <2>2 DEF TypeOK, IInv, DiskWellFormed
<1> QED BY <1>1, StorageInvariant, PTL

\* Load gives the same answer from memory and from disk in every state.
THEOREM LoadsAlwaysAgree == Spec => []LoadsAgree
<1>1. IInv => LoadsAgree
  BY DEF IInv, LoadsAgree
<1> QED BY <1>1, StorageInvariant, PTL

\* The storage on disk implements the entity store: no append is lost however
\* the goroutines of the slots interleave, because an update keeps the lock.
THEOREM DiskRefinement == Spec => DiskImplementsStore
<1>1. Init => D!Store!Init
  BY DEF Init, D!DiskInit, D!Store!Init
<1>2. IInv /\ [Next]_vars => [D!Store!Next]_db
  BY AbstractStep
<1> QED BY <1>1, <1>2, StorageInvariant, PTL DEF Spec, DiskImplementsStore, D!Store!Spec

\* So does the storage in memory, with Load as the refinement mapping.
THEOREM MemoryRefinement == Spec => MemoryImplementsStore
<1>1. Init => Store!Init
  <2> SUFFICES ASSUME Init PROVE Store!Init
    OBVIOUS
  <2>1. MemoryEntity = db
    BY Initial DEF IInv
  <2> QED BY <2>1 DEF Init, D!DiskInit, Store!Init
<1>2. IInv /\ [Next]_vars => [Store!Next]_MemoryEntity
  BY AbstractStep
<1> QED BY <1>1, <1>2, StorageInvariant, PTL DEF Spec, MemoryImplementsStore, Store!Spec

-------------------------------------------------------------------------------
(* Get and Count *)

\* Both engines count the calls of Add, and the index knows every entity.
Counted ==
    /\ count = Len(entities)
    /\ DOMAIN lookup = {entities[n].uri : n \in DOMAIN entities}

ListInv == IInv /\ Counted

\* An entity in the slice is stored under its URI.
LEMMA Known ==
    ASSUME ListInv
    PROVE  /\ entities \in Seq([uri : Uri, entity : Entity])
           /\ \A n \in DOMAIN entities : entities[n] \in [uri : Uri, entity : Entity]
           /\ \A u \in Uri : db[u] # NoEntity <=> u \in DOMAIN lookup
<1>1. /\ entities \in Seq([uri : Uri, entity : Entity])
      /\ \A n \in DOMAIN entities : entities[n] \in [uri : Uri, entity : Entity]
  <2>1. entities \in Seq([uri : Uri, entity : Entity])
    BY DEF ListInv, IInv, MemoryWellFormed
  <2>2. DOMAIN entities = 1..Len(entities)
    BY <2>1
  <2> QED BY <2>1, <2>2, ElementOfSeq
<1>2. ASSUME NEW u \in DOMAIN lookup PROVE db[u] # NoEntity
  <2>1. u \in Uri /\ lookup[u] \in DOMAIN entities
    BY DEF ListInv, IInv, MemoryWellFormed
  <2>2. db[u] = entities[lookup[u]].entity
    BY <2>1 DEF ListInv, IInv, MemoryEntity
  <2>3. entities[lookup[u]] \in [uri : Uri, entity : Entity]
    BY <1>1, <2>1
  <2>4. entities[lookup[u]].entity \in Entity
    BY <2>3
  <2> QED BY <2>2, <2>4, StoragesAssumption DEF Entity
<1>3. \A u \in Uri : u \notin DOMAIN lookup => db[u] = NoEntity
  BY DEF ListInv, IInv, MemoryEntity
<1> QED BY <1>1, <1>2, <1>3

\* Add appends one entity and counts one; nothing else does either.
LEMMA CountedKept == ListInv /\ [Next]_vars => Counted'
<1> SUFFICES ASSUME ListInv, [Next]_vars PROVE Counted'
  OBVIOUS
<1>0. entities \in Seq([uri : Uri, entity : Entity])
  BY Known
<1>1. ASSUME NEW p \in Path, AddEntity(p) PROVE Counted'
  <2> DEFINE u == UriOf(p)
             new == [uri |-> u, entity |-> Store!Fresh(p)]
  <2>1. /\ entities' = Append(entities, new) /\ count' = count + 1
        /\ DOMAIN lookup' = DOMAIN lookup \union {u}
    BY <1>1 DEF AddEntity, MemoryAdd, D!DiskAdd
  <2>2. new.uri = u /\ u \in Uri /\ new \in [uri : Uri, entity : Entity]
    BY FreshType, StoragesAssumption
  <2> HIDE DEF new, u
  <2>3. /\ Len(entities') = Len(entities) + 1
        /\ DOMAIN entities' = DOMAIN entities \union {Len(entities')}
        /\ entities'[Len(entities')] = new
        /\ \A n \in DOMAIN entities : entities'[n] = entities[n]
    BY <1>0, <2>1, <2>2
  <2>4. {entities'[n].uri : n \in DOMAIN entities'} = {entities[n].uri : n \in DOMAIN entities} \union {u}
    BY <2>2, <2>3
  <2> QED BY <2>1, <2>3, <2>4 DEF ListInv, Counted
<1>2. ASSUME NEW s \in Slot, EndValue(s) PROVE Counted'
  <2> DEFINE i == lookup[buffer[s].uri]
             old == entities[i]
             e == Store!With(old.entity, s, buffer[s].value)
  <2>1. /\ entities' = [entities EXCEPT ![i] = [uri |-> old.uri, entity |-> e]]
        /\ lookup' = lookup /\ count' = count
    BY <1>2 DEF EndValue, MemoryExtend, D!EndUpdate
  <2> HIDE DEF i, old, e
  <2>2. /\ DOMAIN entities' = DOMAIN entities /\ Len(entities') = Len(entities)
        /\ \A n \in DOMAIN entities : entities'[n].uri = entities[n].uri
    BY <1>0, <2>1 DEF old
  <2> QED BY <2>1, <2>2 DEF ListInv, Counted
<1>3. CASE \/ StartFilling \/ FinalizeBoth \/ Ended \/ UNCHANGED vars
           \/ \E u \in Uri, s \in Slot, v \in Value : BeginValue(u, s, v)
  <2>1. entities' = entities /\ lookup' = lookup /\ count' = count
    BY <1>3 DEF StartFilling, FinalizeBoth, Ended, BeginValue, D!BeginUpdate, vars, memoryVars
  <2> QED BY <2>1 DEF ListInv, Counted
<1> QED BY <1>1, <1>2, <1>3 DEF Next

\* When no URI was added twice, its entity in the slice is the one Load answers.
LEMMA OneEntityPerURI ==
    ASSUME ListInv, AddedOnce, NEW n \in DOMAIN entities
    PROVE  /\ entities[n].uri \in Uri
           /\ db[entities[n].uri] # NoEntity
           /\ db[entities[n].uri] = entities[n].entity
<1> DEFINE u == entities[n].uri
<1>1. u \in Uri
  <2>1. entities[n] \in [uri : Uri, entity : Entity]
    BY Known
  <2> QED BY <2>1
<1>2. u \in DOMAIN lookup
  BY DEF ListInv, Counted
<1>3. lookup[u] = n
  BY <1>2 DEF ListInv, IInv, MemoryWellFormed, AddedOnce
<1>4. db[u] = entities[lookup[u]].entity
  BY <1>1, <1>2 DEF ListInv, IInv, MemoryEntity
<1> QED BY <1>1, <1>2, <1>3, <1>4, Known

\* The disk lists as many entities as there are in the slice.
LEMMA CountIsLength ==
    ASSUME ListInv, AddedOnce, NEW i \in {-1, 1}, Listed(i) = D!DiskGet(i)
    PROVE  Cardinality(D!DiskGet(i)) = Len(entities)
<1> DEFINE f == [n \in 1..Len(entities) |-> MemoryGet(i)[n]]
<1>1. Len(entities) \in Nat /\ DOMAIN entities = 1..Len(entities)
  BY Known
<1>2. \A n \in 1..Len(entities) : f[n] = MemoryGet(i)[n] /\ f[n].label = entities[n].uri
  BY <1>1 DEF MemoryGet
<1>3. \A m, n \in 1..Len(entities) : f[m] = f[n] => m = n
  BY <1>1, <1>2 DEF AddedOnce
<1>4. Listed(i) = {f[n] : n \in 1..Len(entities)}
  BY <1>1 DEF Listed
<1> DEFINE T == D!DiskGet(i)
<1>5. T = {f[n] : n \in 1..Len(entities)}
  BY <1>4
<1>6. f \in Bijection(1..Len(entities), T)
  <2> HIDE DEF f, T
  <2>1. f \in [1..Len(entities) -> T]
    <3>1. f = [n \in 1..Len(entities) |-> f[n]]
      BY DEF f
    <3> QED BY <3>1, <1>5
  <2>2. f \in Surjection(1..Len(entities), T)
    BY <2>1, <1>5, Fun_IsSurj
  <2>3. f \in Injection(1..Len(entities), T)
    BY <2>1, <1>3, Fun_IsInj
  <2> QED BY <2>2, <2>3 DEF Bijection
<1>7. ExistsBijection(1..Len(entities), T)
  BY <1>6 DEF ExistsBijection
<1>8. IsFiniteSet(1..Len(entities)) /\ Cardinality(1..Len(entities)) = Len(entities)
  <2> DEFINE l == Len(entities)
  <2> HIDE DEF l
  <2>1. l \in Nat /\ l \in Int /\ 1 \in Int
    BY <1>1 DEF l
  <2>2. IsFiniteSet(1..l) /\ Cardinality(1..l) = IF 1 > l THEN 0 ELSE l - 1 + 1
    BY <2>1, FS_Interval
  <2> QED BY <2>1, <2>2 DEF l
<1> HIDE DEF T
<1>9. Cardinality(T) = Len(entities)
  BY <1>7, <1>8, FS_Bijection
<1> QED BY <1>9 DEF T

\* For any URIs, paths, slots and values: until a URI is added twice, Get lists
\* the same entities from memory and from disk when asked for no parents, and
\* with the same parents for a parent index above 0; and Count is the number of
\* them.  Nothing is said of parent index 0 (disk.go:217) and of a URI that was
\* added twice (memory.go:39): there the two differ.
THEOREM ListingsAgreeBelowRoots == Spec => []ListingsAgree
<1>1. Init => Counted
  BY DEF Init, MemoryInit, D!DiskInit, Counted
<1>2. IInv /\ Counted /\ [Next]_vars => Counted'
  BY CountedKept DEF ListInv
<1>3. IInv /\ Counted => ListingsAgree
  <2> SUFFICES ASSUME ListInv, AddedOnce
               PROVE  /\ \A i \in {-1, 1} : Listed(i) = D!DiskGet(i)
                      /\ \A i \in {-1, 1} : D!DiskCount = Cardinality(D!DiskGet(i))
                      /\ MemoryCount = D!DiskCount
    BY DEF ListInv, ListingsAgree
  <2>1. ASSUME NEW i \in {-1, 1} PROVE Listed(i) = D!DiskGet(i)
    <3> DEFINE Row(u) == [label |-> u, parent |-> IF i > 0 THEN db[u].path[i + 1] ELSE NoParent]
    <3>1. \A n \in DOMAIN entities : MemoryGet(i)[n] = Row(entities[n].uri)
      BY OneEntityPerURI DEF MemoryGet
    <3>2. ASSUME NEW u \in Uri, db[u] # NoEntity PROVE \E n \in DOMAIN entities : entities[n].uri = u
      BY <3>2, Known DEF ListInv, IInv, MemoryWellFormed
    <3>3. D!DiskGet(i) = {Row(u) : u \in {x \in Uri : db[x] # NoEntity}}
      BY DEF D!DiskGet, D!HasParent
    <3>4. \A n \in DOMAIN entities : entities[n].uri \in {x \in Uri : db[x] # NoEntity}
      BY OneEntityPerURI
    <3> HIDE DEF Row
    <3> QED BY <3>1, <3>2, <3>3, <3>4 DEF Listed
  <2>2. MemoryCount = Len(entities) /\ D!DiskCount = Len(entities)
    BY DEF ListInv, Counted, MemoryCount, D!DiskCount
  <2> QED BY <2>1, <2>2, CountIsLength
<1> QED BY <1>1, <1>2, <1>3, StorageInvariant, PTL DEF Spec
===============================================================================
