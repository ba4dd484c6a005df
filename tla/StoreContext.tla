----------------------------- MODULE StoreContext -----------------------------
(***************************************************************************)
(* Filling the bundle storages (internal/sparkl/context.go) and exporting  *)
(* them (internal/sparkl/pathbuilder.go).                                  *)
(*                                                                         *)
(* The goroutines: the caller of Export; per bundle the goroutine Store    *)
(* starts and one per field of the bundle; per bundle the goroutine of     *)
(* stage 4 and one per child bundle of it; per root bundle the goroutine   *)
(* of Export.  They meet at two WaitGroups, at the first-error field and   *)
(* at the unbuffered channel closers.  What is written to a storage is     *)
(* abstracted to how much of it was written, and what onFinish shows to    *)
(* how often it ran.                                                       *)
(***************************************************************************)
EXTENDS Naturals, Sequences, FiniteSets

CONSTANTS Bundle,
          Roots,      \* the top-level bundles, a sequence
          Children,   \* bundle -> sequence of its child bundles
          Fields,     \* bundle -> number of its fields
          OnDisk,     \* the disk engine, not the one in memory
          MaxFaults   \* bound on the calls that answer an error, or ErrNoEntity

Kids(b) == {Children[b][i] : i \in DOMAIN Children[b]}
RootSet == {Roots[i] : i \in DOMAIN Roots}

ASSUME StoreContextAssumption ==
    /\ IsFiniteSet(Bundle)
    /\ Roots \in Seq(Bundle) /\ Children \in [Bundle -> Seq(Bundle)]
    /\ Fields \in [Bundle -> Nat]
    /\ OnDisk \in BOOLEAN
    /\ \A b \in Bundle : Cardinality({p \in Bundle : b \in Kids(p)}) = IF b \in RootSet THEN 0 ELSE 1
\* The bundles are those that can be reached from the roots.
ASSUME TreeAssumption ==
    \A tree \in SUBSET Bundle :
        RootSet \subseteq tree /\ (\A b \in tree : Kids(b) \subseteq tree) => tree = Bundle

VARIABLES main,         \* the caller of Export
          extractWait, childAddWait,
          faults,       \* history: <<kind, bundle>> of every call that failed
          err,          \* Context.err, the first one reported, or NoError
          result,       \* what Export is going to return
          storage,
          task,         \* per bundle: where its goroutine is
          added,        \* per bundle: how much of its entities was added
          fieldsLeft,   \* per bundle: field goroutines still running
          link,         \* per bundle: where stage 4 is
          linked,       \* per child: how much of it was offered to its parent
          dropped,      \* history: whose values or entities an ErrNoEntity dropped
          finished,     \* how often onFinish ran
          export,       \* per root: where the goroutine of Export is
          crashed       \* a nil database was used

waits == <<extractWait, childAddWait>>
errors == <<faults, err, result>>
filling == <<task, added, fieldsLeft, finished>>
linking == <<link, linked>>
vars == <<main, waits, errors, storage, filling, linking, dropped, export, crashed>>

NoError == "none"
Kinds == {"open", "entities", "field", "child", "count", "finalize", "export", "close", "closer"}
Amount == {"nothing", "some", "all"}
Busy == "running"

TypeOK ==
    /\ main \in {"storing", "extract", "child", "export", "close", "ended"}
    /\ extractWait \in Nat /\ childAddWait \in Nat
    /\ faults \subseteq Kinds \X Bundle
    /\ err \in Kinds \union {NoError} /\ result \in Kinds \union {NoError}
    /\ storage \in [Bundle -> {"none", "failed", "open", "final", "closed"}]
    /\ task \in [Bundle -> {"none", "entities", "children", "leave", "finish", "done"}]
    /\ added \in [Bundle -> Amount] /\ linked \in [Bundle -> Amount \union {Busy}]
    /\ fieldsLeft \in [Bundle -> Nat] /\ finished \in Nat
    /\ link \in [Bundle -> {"none", "waiting", "linking", "sending", "gone"}]
    /\ dropped \subseteq {"value", "child"} \X Bundle
    /\ export \in [Bundle -> {"none", "begin", "loading", "closing", "closed"}]
    /\ crashed \in BOOLEAN

\* After Context.Open and SetCT(0, total).
Init ==
    /\ main = "storing"
    /\ extractWait = 1 /\ childAddWait = 0
    /\ faults = {} /\ err = NoError /\ result = NoError
    /\ storage = [b \in Bundle |-> "none"]
    /\ task = [b \in Bundle |-> "none"]
    /\ added = [b \in Bundle |-> "nothing"]
    /\ fieldsLeft = [b \in Bundle |-> 0] /\ finished = 0
    /\ link = [b \in Bundle |-> "none"]
    /\ linked = [b \in Bundle |-> "nothing"]
    /\ dropped = {}
    /\ export = [b \in Bundle |-> "none"]
    /\ crashed = FALSE

Move(pc, b, to) == [pc EXCEPT ![b] = to]

\* A call about bundle b fails, within the bound; errOnce keeps the first error.
MayFail == Cardinality(faults) + Cardinality(dropped) < MaxFaults
FaultIn(kind, b) == MayFail /\ faults' = faults \union {<<kind, b>>}

\* Mutant of First: errOnce is used up by the first report of a nil error.
First_Consumed(old, kind) == old

First(old, kind) == IF old = NoError THEN kind ELSE old
Reported(kind, b) == FaultIn(kind, b) /\ err' = First(err, kind) /\ UNCHANGED result
Fine == UNCHANGED errors

\* Storing into the parent of some value, or some entity, of bundle b answers
\* ErrNoEntity, or does not: it is not reported, and the loop goes on without it.
MayDrop(kind, b) ==
    \/ UNCHANGED dropped
    \/ MayFail /\ dropped' = dropped \union {<<kind, b>>}

-------------------------------------------------------------------------------
\* Mutant of StoreOpens: extractWait.Add(1) is missing.
StoreOpens_NoAdd(b) ==
    /\ Fine
    /\ storage' = Move(storage, b, "open") /\ task' = Move(task, b, "entities")
    /\ UNCHANGED extractWait

\* Store: NewStorage succeeds and the goroutine is started.
StoreOpens(b) ==
    /\ Fine
    /\ storage' = Move(storage, b, "open") /\ task' = Move(task, b, "entities")
    /\ extractWait' = extractWait + 1

\* Store: NewStorage fails.  The caller runs onFinish itself, and goes on when
\* that is done.
StoreFails(b) ==
    /\ Reported("open", b)
    /\ storage' = Move(storage, b, "failed") /\ task' = Move(task, b, "finish")
    /\ UNCHANGED extractWait

\* Store is called for the bundles of a sequence, one after the other.
StoreNext(bundles) ==
    \E i \in DOMAIN bundles :
        /\ storage[bundles[i]] = "none"
        /\ \A j \in 1..(i - 1) : storage[bundles[j]] # "none" /\ task[bundles[j]] # "finish"
        /\ StoreOpens(bundles[i]) \/ StoreFails(bundles[i])
AllStored(bundles) == \A b \in bundles : storage[b] # "none"
Failed(bundles) == \E b \in bundles : storage[b] = "failed"
Returned(bundles) == \A b \in bundles : storage[b] = "failed" => task[b] = "done"

StoreRoot ==
    /\ main = "storing"
    /\ Returned(RootSet)
    /\ StoreNext(Roots)
    /\ UNCHANGED <<main, childAddWait, added, fieldsLeft, finished, linking, dropped, export, crashed>>

\* Stage 1, and the goroutines of stage 2; or an error in the middle of stage 1.
AddEntities(b) ==
    /\ task[b] = "entities"
    /\ \/ /\ Fine
          /\ added' = [added EXCEPT ![b] = "all"]
          /\ fieldsLeft' = [fieldsLeft EXCEPT ![b] = Fields[b]]
          /\ extractWait' = extractWait + Fields[b]
          /\ task' = Move(task, b, "children")
       \/ /\ Reported("entities", b)
          /\ \E amount \in Amount : added' = [added EXCEPT ![b] = amount]
          /\ task' = Move(task, b, "leave")
          /\ UNCHANGED <<extractWait, fieldsLeft>>
    /\ UNCHANGED <<main, childAddWait, storage, finished, linking, dropped, export, crashed>>

\* Stage 2: one field goroutine comes to its end, with an error or without; a
\* value without an entity was dropped, or none was.
AddField(b) ==
    /\ fieldsLeft[b] > 0
    /\ Fine \/ Reported("field", b)
    /\ MayDrop("value", b)
    /\ fieldsLeft' = [fieldsLeft EXCEPT ![b] = @ - 1]
    /\ extractWait' = extractWait - 1
    /\ UNCHANGED <<main, childAddWait, storage, task, added, finished, linking, export, crashed>>

\* Stage 3: the next child is stored and registered.
StoreChild(b) ==
    /\ task[b] = "children" /\ ~Failed(Kids(b))
    /\ StoreNext(Children[b])
    /\ UNCHANGED <<main, childAddWait, added, fieldsLeft, finished, linking, dropped, export, crashed>>

\* Stage 3: "creating the storage has failed": neither later children nor
\* stage 4 are started.
Abandon(b) ==
    /\ task[b] = "children" /\ Failed(Kids(b)) /\ Returned(Kids(b))
    /\ task' = Move(task, b, "leave")
    /\ UNCHANGED <<main, waits, errors, storage, added, fieldsLeft, finished, linking, dropped, export, crashed>>

\* Mutant of ForAllKids: childAddWait is raised by one.
ForAllKids_One(b) == 1

\* The delta of childAddWait.Add.
ForAllKids(b) == Len(Children[b])

\* All children are stored: childAddWait is raised and stage 4 started.
StartLinking(b) ==
    /\ task[b] = "children" /\ AllStored(Kids(b)) /\ ~Failed(Kids(b))
    /\ childAddWait' = childAddWait + ForAllKids(b)
    /\ link' = Move(link, b, "waiting") /\ task' = Move(task, b, "leave")
    /\ UNCHANGED <<main, extractWait, errors, storage, added, fieldsLeft, finished, linked, dropped, export, crashed>>

\* The deferred calls of the goroutine: extractWait.Done, and then onFinish.
Leave(b) ==
    /\ task[b] = "leave"
    /\ extractWait' = extractWait - 1
    /\ task' = Move(task, b, "finish")
    /\ UNCHANGED <<main, childAddWait, errors, storage, added, fieldsLeft, finished, linking, dropped, export, crashed>>

\* onFinish, which StoreBundles uses to show how many bundles are stored; SetCT
\* may fail.
Finish(b) ==
    /\ task[b] = "finish"
    /\ Fine \/ Reported("count", b)
    /\ finished' = finished + 1
    /\ task' = Move(task, b, "done")
    /\ UNCHANGED <<main, waits, storage, added, fieldsLeft, linking, dropped, export, crashed>>

-------------------------------------------------------------------------------
\* Mutant of MayLink: stage 4 does not wait for the extraction.
MayLink_AtOnce(b) == link[b] = "waiting"

MayLink(b) == link[b] = "waiting" /\ extractWait = 0

\* Stage 4 starts one goroutine per child.
StartAdding(b) ==
    /\ MayLink(b)
    /\ link' = Move(link, b, "linking")
    /\ linked' = [c \in Bundle |-> IF c \in Kids(b) THEN Busy ELSE linked[c]]
    /\ UNCHANGED <<main, waits, errors, storage, filling, dropped, export, crashed>>

\* Every entity of child storage c is offered to its parent; or an error, after
\* which a broken iteration stops and a failed AddChild does not.  An entity
\* whose parent is unknown was dropped, or none was.
AddChildren(c) ==
    /\ linked[c] = Busy
    /\ \/ Fine /\ linked' = [linked EXCEPT ![c] = added[c]]
       \/ Reported("child", c) /\ \E amount \in Amount : linked' = [linked EXCEPT ![c] = amount]
    /\ MayDrop("child", c)
    /\ childAddWait' = childAddWait - 1
    /\ UNCHANGED <<main, extractWait, storage, filling, link, export, crashed>>

ChildrenAdded(b) == \A c \in Kids(b) : linked[c] # Busy

\* wg.Wait, then Finalize.  Disk.Close has set the database to nil, and
\* Disk.Finalize uses it; Memory.Finalize does nothing.  Then the goroutine
\* offers the storage to Close.
FinalizeStorage(b) ==
    /\ link[b] = "linking" /\ ChildrenAdded(b)
    /\ IF OnDisk /\ storage[b] = "closed"
       THEN crashed' = TRUE /\ Fine /\ UNCHANGED storage
       ELSE /\ UNCHANGED crashed
            /\ \/ Fine /\ storage' = IF storage[b] = "closed" THEN storage ELSE Move(storage, b, "final")
               \/ OnDisk /\ Reported("finalize", b) /\ UNCHANGED storage
    /\ link' = Move(link, b, "sending")
    /\ UNCHANGED <<main, waits, filling, linked, dropped, export>>

-------------------------------------------------------------------------------
\* Wait: the Done that balances Open, and the two waits.
WaitDone ==
    /\ main = "storing" /\ AllStored(RootSet) /\ Returned(RootSet)
    /\ extractWait' = extractWait - 1
    /\ main' = "extract"
    /\ UNCHANGED <<childAddWait, errors, storage, filling, linking, dropped, export, crashed>>

\* Mutant of Extracted: the extraction is not waited for.
Extracted_Assumed == TRUE

Extracted == extractWait = 0

WaitExtract ==
    /\ main = "extract" /\ Extracted
    /\ main' = "child"
    /\ UNCHANGED <<waits, errors, storage, filling, linking, dropped, export, crashed>>

AllLinked == childAddWait = 0

\* Wait returns the first error, and Export with it; or one goroutine per root
\* starts.
WaitChild ==
    /\ main = "child" /\ AllLinked
    /\ result' = err
    /\ IF err = NoError
       THEN main' = "export" /\ export' = [b \in Bundle |-> IF b \in RootSet THEN "begin" ELSE "none"]
       ELSE main' = "close" /\ UNCHANGED export
    /\ UNCHANGED <<waits, faults, err, storage, filling, linking, dropped, crashed>>

\* Mutant of ExportFault: gErr is not set.
ExportFault_Ignored(kind, r) == FaultIn(kind, r) /\ UNCHANGED <<err, result>>

\* Export keeps the first error as well, after that of Wait.
ExportFault(kind, r) == FaultIn(kind, r) /\ result' = First(result, kind) /\ UNCHANGED err

\* Count and Exporter.Begin; on an error only the storage is closed.
BeginExport(r) ==
    /\ export[r] = "begin"
    /\ \/ Fine /\ export' = Move(export, r, "loading")
       \/ ExportFault("export", r) /\ export' = Move(export, r, "closing")
    /\ UNCHANGED <<main, waits, storage, filling, linking, dropped, crashed>>

\* Every entity is loaded, its children from their storages, and handed to the
\* exporter; then Exporter.End.
LoadEntities(r) ==
    /\ export[r] = "loading"
    /\ Fine \/ ExportFault("export", r)
    /\ export' = Move(export, r, "closing")
    /\ UNCHANGED <<main, waits, storage, filling, linking, dropped, crashed>>

\* The deferred Close of the storage.
CloseRoot(r) ==
    /\ export[r] = "closing"
    /\ Fine \/ ExportFault("close", r)
    /\ storage' = Move(storage, r, "closed") /\ export' = Move(export, r, "closed")
    /\ UNCHANGED <<main, waits, filling, linking, dropped, crashed>>

\* Mutant of Exported: the exporting goroutines are not waited for.
Exported_Assumed == TRUE

Exported == \A r \in RootSet : export[r] = "closed"

\* wg.Wait, and Exporter.Close, whose error is booked under any root.
ExportDone ==
    /\ main = "export" /\ Exported
    /\ main' = "close"
    /\ Fine \/ \E r \in RootSet : ExportFault("close", r)
    /\ UNCHANGED <<waits, storage, filling, linking, dropped, export, crashed>>

\* Close takes what is being offered now, and returns nil when nothing is: the
\* error of a closer is lost.
CloseOne ==
    /\ main = "close"
    /\ \E b \in Bundle : /\ link[b] = "sending"
                         /\ storage' = Move(storage, b, "closed") /\ link' = Move(link, b, "gone")
                         /\ Fine \/ (FaultIn("closer", b) /\ UNCHANGED <<err, result>>)
    /\ UNCHANGED <<main, waits, filling, linked, dropped, export, crashed>>

CloseReturns ==
    /\ main = "close" /\ \A b \in Bundle : link[b] # "sending"
    /\ main' = "ended"
    /\ UNCHANGED <<waits, errors, storage, filling, linking, dropped, export, crashed>>

-------------------------------------------------------------------------------
Main == StoreRoot \/ WaitDone \/ WaitExtract \/ WaitChild \/ ExportDone \/ CloseOne \/ CloseReturns
Goroutine(b) ==
    \/ AddEntities(b) \/ AddField(b) \/ StoreChild(b) \/ Abandon(b) \/ StartLinking(b)
    \/ Leave(b) \/ Finish(b) \/ StartAdding(b) \/ AddChildren(b) \/ FinalizeStorage(b)
    \/ BeginExport(b) \/ LoadEntities(b) \/ CloseRoot(b)

\* Export has returned, whatever its goroutines still do, or the process died.
Ended == (crashed \/ main = "ended") /\ UNCHANGED vars

Next == (~crashed /\ (Main \/ \E b \in Bundle : Goroutine(b))) \/ Ended

\* The Go scheduler lets some runnable goroutine run; nothing loops here.
Spec == Init /\ [][Next]_vars /\ WF_vars(Next)

-------------------------------------------------------------------------------
Waited == main \in {"export", "close", "ended"}
Writing(b) == task[b] = "entities" \/ fieldsLeft[b] > 0 \/ \E c \in Kids(b) : linked[c] = Busy

\* When Wait returns nil every bundle of the tree has all of its entities, all
\* of its fields were read to the end, and every entity of a child bundle was
\* offered to its parent: nothing is missing in what Export sees but the values
\* and entities that ErrNoEntity dropped on the way.
WaitMeansComplete ==
    (\E r \in RootSet : export[r] # "none") =>
        \A b \in Bundle : /\ added[b] = "all" /\ fieldsLeft[b] = 0
                          /\ b \notin RootSet => linked[b] = "all"

\* Wait never returns while anything is or will be written to a storage, with
\* or without an error, so that Export and Close may use the storages; and
\* "Finalize is called to signal to this storage that no more write operations
\* will take place" (storages.go:61): none does.
NoWriterAfterWait ==
    /\ Waited => \A b \in Bundle : ~Writing(b) /\ (link[b] = "waiting" => Kids(b) = {})
    /\ \A b \in Bundle : storage[b] = "final" => ~Writing(b)

\* Memory.Add appends without a lock: while it runs, nobody else touches the
\* storage, neither a field nor stage 4 of the bundle or of its parent.
AddIsExclusive ==
    \A b \in Bundle : task[b] = "entities" =>
        fieldsLeft[b] = 0 /\ \A c \in {b} \union Kids(b) : linked[c] # Busy

\* The rule sync.WaitGroup states for Add: a group that has let a waiter pass
\* is not raised again.
WaitGroupsNotReused ==
    [][/\ extractWait = 0 => extractWait' = 0
       /\ main \notin {"storing", "extract"} => childAddWait' =< childAddWait]_vars

\* The smallest set with the bundle and with the children of its members.
Below(root) ==
    {b \in Bundle : \A tree \in SUBSET Bundle :
        root \in tree /\ (\A c \in tree : Kids(c) \subseteq tree) => b \in tree}

\* While a root is exported no storage below it is closed: Disk.Load follows
\* the children into their storages.
LoadedStoragesOpen ==
    \A r \in RootSet : export[r] = "loading" =>
        \A b \in Below(r) : storage[b] \in {"open", "final"}

\* Of the errors the code means to report, those of all calls but with
\* ErrNoEntity, Export loses only what may happen after Wait: those of Finalize,
\* of the count of onFinish and of the storages that Close closes.
LateKinds == {"count", "finalize", "closer"}
OtherErrorsAreReturned ==
    main = "ended" /\ result = NoError => \A f \in faults : f[1] \in LateKinds

\* What Export promises as a whole.  A bundle is full when everything was read
\* and offered to the storages without an error other than ErrNoEntity, and it
\* is lossy when that dropped something of it; a root is exported when all its
\* entities were.
Full(b) ==
    /\ added[b] = "all" /\ fieldsLeft[b] = 0 /\ (b \in RootSet \/ linked[b] = "all")
    /\ \A kind \in {"entities", "field", "child"} : <<kind, b>> \notin faults
Lossy(b) == \E kind \in {"value", "child"} : <<kind, b>> \in dropped
Handed(r) == export[r] \in {"closing", "closed"} /\ <<"export", r>> \notin faults
FullBundles == {b \in Bundle : Full(b)}
LossyBundles == {b \in FullBundles : Lossy(b)}
HandedRoots == {r \in RootSet : Handed(r)}
Phase == IF ~Waited THEN "filling" ELSE IF main = "export" THEN "exporting" ELSE "over"
Answer == IF main \notin {"close", "ended"} THEN "none"
          ELSE IF result = NoError THEN "nil" ELSE "error"
T == INSTANCE TreeExport WITH
       phase <- Phase, full <- FullBundles, lossy <- LossyBundles,
       exported <- HandedRoots, answer <- Answer
ImplementsTreeExport == T!Spec

\* Export returns: no barrier waits for a goroutine that was never started or
\* has already gone.
ExportReturns == <>(main = "ended" \/ crashed)

-------------------------------------------------------------------------------
\* context.go:248, at the end of stage 4: "tell the storage to be closed on a
\* call to Close()".  When Close has returned, every storage that reaches this
\* point has been closed.
CloseClosesStorages ==
    main = "ended" => \A b \in Bundle : link[b] # "none" => storage[b] = "closed"
===============================================================================
