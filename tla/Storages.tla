------------------------------- MODULE Storages -------------------------------
(***************************************************************************)
(* One bundle filled once in memory and once on disk (-cache, which must   *)
(* not change what is shown): both storages get the same calls, in the     *)
(* order and with the concurrency storages.go and Context.Store allow.     *)
(***************************************************************************)
EXTENDS MemoryStorage, FiniteSets

CONSTANTS Idle,
          MaxAdds,    \* bound on the calls of Add
          MaxValues   \* bound on the values of one slot of one entity

\* An entity is added under the last node of the path that leads to it.
UriOf(path) == path[Len(path)]

ASSUME StoragesAssumption ==
    /\ \A path \in Path : UriOf(path) \in Uri
    /\ NoEntity \notin [path : Path, values : [Slot -> Seq(Value)]]
    /\ MaxAdds \in Nat /\ MaxValues \in Nat

VARIABLES db, count, buffer,
          phase  \* "add": stage 1, "fill": stages 2 and 4, "final"
vars == <<memoryVars, db, count, buffer, phase>>

D == INSTANCE DiskStorage

TypeOK == MemoryTypeOK /\ D!DiskTypeOK /\ phase \in {"add", "fill", "final"}

Init == MemoryInit /\ D!DiskInit /\ phase = "add"

AddEntity(path) ==
    /\ phase = "add" /\ Len(entities) < MaxAdds
    /\ MemoryAdd(UriOf(path), path) /\ D!DiskAdd(UriOf(path), path)
    /\ UNCHANGED phase

\* Stage 1 is over: the goroutines of the fields, and later those of the
\* child bundles, run.
StartFilling ==
    /\ phase = "add"
    /\ phase' = "fill"
    /\ UNCHANGED <<memoryVars, db, count, buffer>>

\* AddFieldValue or AddChild on disk; for an unknown URI it is ErrNoEntity and
\* nothing happens.
BeginValue(u, s, v) ==
    /\ phase = "fill"
    /\ db[u] # NoEntity => Len(db[u].values[s]) < MaxValues
    /\ D!BeginUpdate(u, s, v)
    /\ UNCHANGED <<memoryVars, phase>>

\* The call returns, and the one in memory is made.
EndValue(s) ==
    /\ D!EndUpdate(s)
    /\ MemoryExtend(buffer[s].uri, s, buffer[s].value)
    /\ UNCHANGED phase

\* All goroutines are done (module StoreContext).
FinalizeBoth ==
    /\ phase = "fill" /\ \A s \in Slot : buffer[s] = Idle
    /\ phase' = "final"
    /\ UNCHANGED <<memoryVars, db, count, buffer>>

Ended == phase = "final" /\ UNCHANGED vars

Next ==
    \/ \E path \in Path : AddEntity(path)
    \/ StartFilling \/ FinalizeBoth \/ Ended
    \/ \E u \in Uri, s \in Slot, v \in Value : BeginValue(u, s, v)
    \/ \E s \in Slot : EndValue(s)

Spec == Init /\ [][Next]_vars

-------------------------------------------------------------------------------
\* Load answers the same from memory and from disk, for every entity and also
\* for one that was added twice, whatever update is in progress.
LoadsAgree == \A u \in Uri : MemoryEntity[u] = db[u]

\* As long as no URI was added twice, Get lists the same entities with the same
\* parents from memory and from disk, below a bundle that is not a root, and
\* when nothing but URIs is asked for; and Count is the number of them, as
\* Exporter.Begin promises.
AddedOnce == \A m, n \in DOMAIN entities : entities[m].uri = entities[n].uri => m = n
Listed(i) == {MemoryGet(i)[n] : n \in DOMAIN entities}
ListingsAgree ==
    AddedOnce =>
        /\ \A i \in {-1, 1} : Listed(i) = D!DiskGet(i)
        /\ \A i \in {-1, 1} : D!DiskCount = Cardinality(D!DiskGet(i))
        /\ MemoryCount = D!DiskCount

\* Both are entity stores: no value is lost, put into another slot or entity,
\* or taken over by a new entity with an old URI.
MemoryImplementsStore == Store!Spec
DiskImplementsStore == D!Store!Spec

\* storages.go:65: Get "iterates over the url of every entity in this bundle,
\* along with their parent URIs", for every index a path has.
DiskGetYieldsParents == D!GetYieldsParents
===============================================================================
