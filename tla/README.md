# A verification development of hangover

hangover reads a WissKI export, a *pathbuilder* (XML) and a set of N-Quads, builds an
index of the triples, assembles from it the entities of every bundle of the pathbuilder,
and shows them in a browser (`hangover`, `headache`) or writes them as JSON, SQL or CSV
(`n2j`). This directory holds TLA+ modules of the part of it that decides *what* is
shown, the TLC configurations that check them on small instances, and TLAPS proofs.
Paths below are relative to the root of the repository.

Contents: [1 the system](#1-the-system), [2
modules](#2-modules-and-how-they-correspond-to-the-code), [3
runs](#3-runs-bounds-and-what-they-show), [4 fairness](#4-fairness), [5
findings](#5-what-the-checks-found), [6 proofs](#6-what-is-proved), [7 not
modelled](#7-what-is-not-modelled), [8 plan](#8-plan), [9 running
it](#9-running-the-checks).

## 1 The system

### Components

| component | code | state it keeps | operations | correct means |
|---|---|---|---|---|
| label interning (imap) | `internal/triplestore/imap/imap.go`, `impl/id.go` | label → (canonical id, literal id), literal id → label, last id, finalized | Reset, Add, MarkIdentical, Next, Forward, Reverse, IdentityMap, Finalize, Close | labels share a canonical id exactly if they were identified, however indirectly; a literal id names one label for ever |
| hash maps | `imap/map_memory.go`, `map_disk.go`, `memory.go`, `igraph/engine_*.go` | a Go map or a LevelDB directory | Set, Get, Has, Iterate, Compact, Finalize, Close | a map |
| index (igraph) | `internal/triplestore/igraph/index.go`, `triple.go`, `engine_memory.go` | labels, data, inverses, triples, two indexes predicate-subject-object and predicate-object-subject, masks, statistics | SetPredicateMask, SetDataMask, MarkIdentical, MarkInverse, AddTriple, AddData, Compact, Finalize, Close | both indexes hold the same edges, namely those the input states up to identity and inverses, each with its best triple |
| reader (sparkl) | `internal/sparkl/index.go`, `index_source.go` | position in the file, pass | MakeIndex: masks, pass over owl:sameAs, pass over owl:inverseOf, pass over the rest | every identity is known before the first inverse and triple |
| paths (igraph) | `internal/triplestore/igraph/paths.go`, `extractPath` in `sparkl/context.go` | a chain of iterators | PathsStarting, Connected, Ending, Paths | each path the path array describes comes out once |
| bundle storages | `internal/sparkl/storages/*.go` | entities by URI, in memory or in LevelDB | Add, AddFieldValue, AddChild, Get, Count, Load, Finalize, Close | no value is lost; both engines answer alike |
| store context | `internal/sparkl/context.go`, `pathbuilder.go` | two WaitGroups, the first error, a channel of closers, a tree of storages | StoreBundles, Store, Wait, Close, Export | nothing is exported before it is filled, every error meant to be reported is, everything is closed, and it ends |
| cache | `internal/sparkl/cache.go` | lookup tables over the exported entities | NewCache, Bundle, FirstBundle, Entity, Aliases | lookups through aliases find the entity |
| exporters | `internal/sparkl/exporter/*.go` | a map, or batches of SQL rows | Begin, Add, End, Close | each entity written once |
| stats | `internal/stats/status.go` | a flag, the current stage with two counts, the stages that ended | Start, End, DoStage, SetCT, Progress, Close | progress of the stage that runs |
| progress | `pkg/progress/*.go` | a line of the terminal | Write, Flush, Close | presentation |
| viewer | `internal/viewer/*.go` | cache, pathbuilder, routes, render flags | Prepare, ServeHTTP | the fallback page until Prepare, the real ones after, from complete data |
| glass | `internal/glass/glass.go` | — | Create: the stages above one after the other | |
| loading page | `internal/assets/src/entry/hangover_fallback/loading.ts` | a counter of requests, an interval | updateStatus | progress does not go back, and the page opens in the end |
| entity page | `internal/assets/src/entry/hangover/*.ts` | an array of rows, a map of colours, the state of a promise chain, a flag per showable | clicks, rendering | every row once and in order, colours that tell URIs apart, a graph of exactly the triples |
| TIPSY page | `internal/assets/src/entry/tipsy/index.ts` | a listener | onload, message | the pathbuilder goes to the frame, once |
| asset build | `internal/assets/build.mjs` | files: `.entry-cache`, `dist`, `assets_dist.go` | one run of the script | the generated source names what is in `dist` |
| programs | `cmd/*`, `internal/headache`, `internal/console` | windows, listeners, flags | | |

### Interaction

`glass.Create` runs on one goroutine and in this order: `LoadIndex` → `MakeIndex` fills an
`igraph.Index`, which holds an `imap.IMap`; the finished index is only read from then on.
`Export` calls `StoreBundles`, which starts a goroutine per bundle and per field; each
iterates over `extractPath(...)`, and writes what it yields to its `BundleStorage`. Stage
four of each bundle then copies the entities of its children's storages into its own.
After `Wait` one goroutine per root bundle loads the complete entities from the storages
and hands them to the `Exporter`. `NewCache` interns the URIs of what was exported and the
identity map of the index in another `IMap`, and the viewer serves the result.
An HTTP server runs next to all this: it reads `Stats`, and answers with the loading page
until `Viewer.Prepare` has closed the statistics. The script of the loading page asks for
the progress twice a second and reloads when it is told the server is done. The pages that
come then bring scripts of their own, which `build.mjs` bundled when hangover was built.

### What is hard

* **Order of the input.** Identities, inverses and triples come in any order in the file,
  and identification changes the canonical ids under which edges are filed. Three passes
  over the same reader are there for this reason only.
* **Conflicts.** One edge may be stated directly, with an alias, and through an inverse,
  and each index decides by itself which triple stands for it.
* **Barriers.** WaitGroups grow while they are awaited, fields and children are filled
  concurrently, `Memory.Add` takes no lock, and stage four outlives `Wait` by a few
  statements.
* **Partial failure.** One failing call must neither block a barrier nor get lost. An
  iteration that is left early runs through nested loop bodies.
* **Asynchronous pages.** Requests of the loading page overlap and overtake each other;
  messages of several windows reach one listener; a chain of promises may break at each
  link; and the build runs several calls at once and may die between any two.
* **Two engines.** A storage on disk reads, changes and writes back; one in memory appends.

The list of hazards, each at its line and with the properties that cover it or the reason
why none does, is `hazards` in `PROJECT.json`.

## 2 Modules and how they correspond to the code

`map` in `PROJECT.json` names the lines of every definition. Conventions: a definition
`X_Something` next to `X` is a mutant, a plausible bug of `X`, which the project keeps to
show that its properties can fail; `MC...` modules only give constants their values.

| module | models | state and actions |
|---|---|---|
| `LabelMap` | the value of an IMap and its methods as operators | `MapValue` is `forward`, `reverse`, `id`; `AddNew`, `MarkIdentical`, `IdentityMap` map a value to a value |
| `LabelPartition` | what an IMap promises | `rep`: label → representative; `Intern`, `Identify`, `Forget` |
| `IMap` | the life of one IMap | one action per method, and `AddFails`, `IdentifyFails`, `ResetFails` for a storage error in the middle of one; `identified` records the pairs marked so far |
| `LabelMapProofs` | lemmas about the operators of `LabelMap` | |
| `IMapProofs` | theorems about `IMap` | |
| `Index` | igraph's Index | the two indexes are functions from triples of ids to the id of a triple; masks, data, inverses, triples, shared counters, statistics; one action per method |
| `MakeIndex` | the three passes (extends `Index`) | `source` is the file, `cursor` the reader; one action per token and pass, `EndPass`, `FinalizeStep`, `Fail`, `CloseIndex` |
| `MakeIndexProofs` | theorems about `MakeIndex` | |
| `Paths` | the chained iterators | each element of the path array is a stage; `level` has control, `answer` is what the inner body returned; one action per thing a body does |
| `PathsProofs` | theorems about `Paths` | |
| `EntityStore` | what a BundleStorage promises | URI → path and values per slot; `Add`, `Extend` |
| `MemoryStorage` | storages.Memory | a slice and a lookup of indexes |
| `DiskStorage` | storages.Disk | a record per URI; `update` is two steps that hold the lock |
| `Storages` | one bundle filled in both, with a goroutine per field and child bundle (composes the two) | `phase` is the stage of Context.Store |
| `StorageProofs` | theorems about `Storages` | |
| `Stats` | stats.Stats | the flag `done`, `current`, `all`; the operators are what happens under the lock, `edits` dates copies |
| `Loading` | the server while it opens an export, and the loading page (extends `Stats`) | `pc` and `at` for main, a counter per goroutine of StoreBundles, `viewer` for what Prepare has handed over; the page with a record per request in flight |
| `LoadingProofs` | theorems about `Loading` | |
| `TripleTable` | tripletable.ts | `rows` is the array, `body` what the browser shows, `highlighted` the map, `style` what the elements carry |
| `GraphView` | graph.ts | `render` is the promise chain, `span` the status, `drawn` the graph given to Graphviz; texts are lengths |
| `TipsyPage` | tipsy/index.ts | `inbox` holds the messages the window has not handled, `sent` what went to whom |
| `Frontend` | showable.ts, and the pages that run these scripts (composes the three) | `table` and `data` are made of the same triples by the two templates |
| `AssetBuild` | build.mjs, run again and again | `step` is the await it is at, `todo` the calls of a Promise.all that have not returned |
| `AssetsProofs` | theorems about `Frontend` and `AssetBuild` | |
| `TreeExport` | what Export promises | a phase, the bundles that are full, those of them that are lossy (`ErrNoEntity` left something of them out), the roots handed over, the answer; one bundle and one root per step |
| `StoreContext` | Context and Export | a program counter per goroutine (`main`, `task`, `link`, `export`), the WaitGroups as counters, `err` behind errOnce, `storage` for open, final, closed; `faults` and `dropped` record the calls that failed and those that answered `ErrNoEntity` |
| `StoreContextProofs` | theorems about `StoreContext` | |

Abstractions worth knowing:

* Labels, nodes and values are model values. N-Quads, URIs, languages and the text of a
  datum do not occur; a datum is one marker, an id per occurrence.
* The methods of IMap and Index are one step each: "any operations which change internal
  state are not safe to access concurrently" (imap.go:21), and MakeIndex is one goroutine.
  Go iterates a map in any order; where that shows (`setMask` interns the labels of a set)
  the order is chosen nondeterministically (`Orders`).
* `MaxID` stands for the 2^32 ids of `IDLen` = 4 bytes; the call that would overflow panics
  in the code and is not taken in the model. The mutant of `IMap!TypeOK` removes exactly
  this guard.
* In `StoreContext` what is written is abstracted to *nothing*, *some* or *all* of a
  bundle's entities, because the barriers are about completeness, and `Paths` and
  `Storages` are about the content. Any call may fail (`faults`), and AddFieldValue and
  AddChild may answer `ErrNoEntity` (`dropped`), which the code does not report and goes on
  after (context.go:196, 238); `MaxFaults` bounds the two together. `OnDisk` picks the engine:
  only Disk has a database that Close sets to nil.
* In `Storages` a child entity is a label, and a field value and a child are both a value
  in a slot: `AddFieldValue` and `AddChild` do the same thing to different maps.
* In `Loading` a copy of the counts is dated by `edits`, a counter the code does not have, so
  that *older* means something. The stage that runs StoreBundles is in the middle of `Plan`;
  of the stages only that they follow each other and may fail is kept.
* In `GraphView` a text is its length: what the code decides from a text is where to cut it.
* `Array.prototype.sort` is what it guarantees for a comparator that tells any two rows
  apart: the one arrangement of the rows in which the comparator says *before* throughout
  (`Sorted`).
* Parcel reads the sources at one moment (`RunBundler`), and names a bundle by entry and
  content; what fails inside it leaves any part of its output.
* The triples a path carries along (`element.Triples`) and the debug-only `Paths.Size` are
  left out. In `Paths` one lookup of an iterator may fail; an error of `newPath` or `makePath`
  (paths.go:195-199) ends the iteration as that does, and the errors of `Connected` and
  `Ending` and the empty path array of extractPath (context.go:270-272, 286-306) do not occur.
* In `IMap` a failing Add fails in one of its two Sets. An error of forward.Get or Has before
  an id is taken returns and changes nothing, like a stutter.
* `TipsyPage.OnLoad` finds the elements of its page; the return for a missing one
  (tipsy/index.ts:32-34) is left out.
* In `Frontend` a triple of the table has the labels as `stated` (`.Subject`, the literal
  ones) and the `canonical` ones behind them (`.SSubject`); the graph shows the canonical.
* In `StoreContext` a failing `storage.Add` is reported and ends the loop; that ending it
  may panic is what module `Paths` is for. `SetCT` fails when the terminal does, in onFinish
  (`Finish`); at the start of StoreBundles it is taken to succeed.

## 3 Runs, bounds and what they show

| run | module, cfg | states | result |
|---|---|---|---|
| `imap` | MCIMap, IMap.cfg | 46,016 | pass |
| `make_index` | MCMakeIndex, MakeIndex.cfg | 419,016 | pass |
| `inverse_masked` | MCMakeIndex, InverseMasked.cfg | | violation of `InversesFollow` |
| `paths` | MCPaths, Paths.cfg | 300,665 | pass |
| `paths_stopped` | MCPaths, PathsStopped.cfg | | violation of `StopIsRespected` |
| `storages` | MCStorages, Storages.cfg | 735,087 | pass |
| `disk_parents` | MCStorages, DiskParents.cfg | | violation of `DiskGetYieldsParents` |
| `store_context` | MCStoreContext, StoreContext.cfg | 477,062 | pass |
| `store_leak` | MCStoreContext, StoreLeak.cfg | | violation of `CloseClosesStorages` |
| `loading` | MCLoading, Loading.cfg | 173,197 | pass |
| `frontend` | MCFrontend, Frontend.cfg | 31,549 | pass |
| `asset_build` | MCAssetBuild, AssetBuild.cfg | 1,613 | pass |

**imap.** Three labels, five ids, any sequence of calls and failures. Three labels are what
the merge needs: a class of two whose representative is identified with a third label, from
either side, fresh or known. Checked: a reverse entry is the literal id of its label, also
after a half-done Add (`ReverseInvertsLiteral`); a representative represents itself
(`CanonicalIsFixpoint`); two labels share a canonical id exactly when the least equivalence
that contains the marked pairs relates them (`IdentityIsClosure`); a literal id never
changes (`LiteralIsStable`); the map implements the partition (`ImplementsPartition`).

**make_index.** Every file of up to three tokens from a pool of thirteen, and of four from
a pool of seven, with and without a mask. The pool has identities between nodes and between
predicates in both directions, inverses in both directions and to an alias, the same edge
through an alias, through its inverse and from another graph, and data; four tokens let one
file have an identity, an inverse, a triple and its double. Checked on the finished index
(`EdgesAreExpected`): the data are exactly those the mask lets through, the edges are those
the predicate mask lets through, between classes of labels, and the inverses of these; and
the six statistics count edges by kind, conflicts and masked triples. Both masks are asked
of the predicate as it is stated, as AddTriple and AddData do. And always: the indexes
mirror each other and hold the edge of each stored triple (`Mirrored`), the label of an edge
is the best triple for it (`BestLabel`), an id means one thing, and each literal and
canonical id of a triple resolves (`IDsMeanOneThing`), and no stored id is stale
(`CanonicalsAreCurrent`). The last one holds because of the order of the passes alone. A
triple that lost a conflict stays stored and is reached through neither index.

`inverse_masked` checks the doc of MarkInverse on the same module, with a mask that names one
of two inverse predicates. It fails on a triple with the other one; see section 5.

**paths.** All graphs on two nodes with one predicate and two classes, path arrays of one to
four elements (a class, a hop, a hop to a class, two hops that end in no class), a consumer
that stops after any number of elements up to nine, which is more than any of these graphs
yields, and one lookup that may fail. Two nodes give cycles, self-loops, diamonds through
the two hops and nodes outside the class. When nobody stops and nothing fails the paths are
exactly the described ones and each comes once, and what came before an early end is right
(`PathsAreExact`); and the iteration ends (`Terminates`).

**storages.** Two URIs under two parents, three calls of Add so that a URI may be added
twice, two slots and two values. `LoadsAgree`: Load answers alike. `ListingsAgree`: Get and
Count agree below a non-root bundle while no URI is added twice; the two excluded cases are
real differences of the engines, see section 5. Both engines implement `EntityStore`.

**store_context.** Two roots, one with two children, the first of which has a field; one
call may fail, or answer `ErrNoEntity`, anywhere. Two roots are needed for one to be
exported and closed while the other loads, two children for a barrier with more than one
party and for the case where the second storage cannot be opened, one field for an
additional goroutine of stage two. Checked: Export does what `TreeExport` does one step
after the other (`ImplementsTreeExport`), so that Wait returns nil only when every bundle
has all its entities, its fields were read to the end and all entities of its children were
offered to it (`WaitMeansComplete`, a consequence), and a nil answer means that all roots
were handed over. What `ErrNoEntity` drops on the way makes a bundle *lossy*, and neither
Wait nor the answer tells; TreeExport promises no more. Nobody writes after Wait, whatever
the result, nor to a storage that is finalised (`NoWriterAfterWait`); `Memory.Add`, which
takes no lock, is alone (`AddIsExclusive`); the storages below a root stay open while it is
exported (`LoadedStoragesOpen`); of the errors other than `ErrNoEntity` only those that may
come after Wait get lost (`OtherErrorsAreReturned`, what is left of the doc "Any error that
occurs is returned only by Wait"); a WaitGroup is not raised after it let a waiter pass
(`WaitGroupsNotReused`); Export returns (`ExportReturns`). `store_leak` uses a chain of
three bundles, where the middle one is child and parent.

**loading.** Two stages, the second with a goroutine, a report per stage, and two requests in
flight: enough for an answer to be copied in one stage and to arrive in the next, for the
second request to overtake the first, for the flag to rise between the two looks of
Progress, and for the goroutine to report after its stage. Checked: a request that is not
answered by the loading page is answered from a viewer that has all its parts
(`ServedIsReady`); the page never replaces what it shows by an older state
(`NeverShowsOlder`); and it opens, or from some time on no answer to a latest request
arrives (`PageOpens`). The second case is not only failure: a server that takes longer than
the interval for each answer starves the page, because loading.ts throws away every answer
that is not to the last request, the one that says Done included.

**frontend.** Entities of two and three triples: an inverse, an alias, two data, a datum
whose subject is in no triple, equal triples; two colours for three URIs, so that colours
run out; lines of two characters, so that a text may be shorter, longer, and a multiple.
Two windows, two messages of a kind waiting. Checked: after any clicks each row is shown
once and in the order of the last click that moved rows (`RowsInOrder`); equal URIs are
coloured alike, and different ones differ among the first `NumColors` highlighted since all
were switched off (`ColorsTellApart`; of colours after single ones were switched off it says
nothing, and there one is given twice); the graph has the nodes, edges and boxes of the
triples and no others, and no text is lost in the cut (`GraphIsFaithful`); the page does not
say *Loading* for ever unless the result of Graphviz has no `<svg>`, in which case it does
(`GraphSettles`); the pathbuilder goes to the frame, once, when the frame has said that it is
ready (`DataSentOnce`; a ready after a reload of the frame is ignored by design).

**asset_build.** The three entries of assets.go, two versions of the sources, any number of
runs that end well, fail or are killed. After one that ended well `assets_dist.go` names the
files of `dist`, of one version of the sources (`AssetsMatch`). Two versions are enough for
a stale file to differ.

## 4 Fairness

`Paths` and `StoreContext` assume `WF_vars(Next)`: as long as some goroutine can take a
step, one does. This is the least the Go scheduler gives; nothing in the two modules loops
without getting closer to its end, so that no fairness towards a particular goroutine is
needed. A LevelDB or file call returns, with an error or without: a call that hangs is not
modelled. `Loading` is fair to main, to each goroutine, to each handler, to the delivery of each
answer, to the interval of the page, and to the browser that opens it (`WF_vars`): they are
scheduled by Go, by the network stack and by the event loop of the browser, and none waits
for another for ever. It is not fair to failures, and requests may fail for ever.
`Frontend` is fair to each promise chain, as an event loop is. The other modules state no
liveness.

## 5 What the checks found

1. `disk_parents` (code bug, `storages/disk.go:217`). `Disk.Get` treats parent index 0 as
   "no parent". Index 0 is the index of a root bundle, so with `-cache` every direct child
   entity of a root entity gets an empty parent, `AddChild` answers `ErrNoEntity`, and
   Context.Store ignores that: children are missing without an error.
2. `paths_stopped` (code bug, `igraph/paths.go:107`). When its consumer leaves the loop,
   `expand` aborts one `Fetch` and goes on with the next subject; calling the body of a loop
   that has been left makes the Go runtime panic. `Context.Store` leaves its loop when
   `storage.Add` fails (context.go:173-175).
3. `store_leak` (`sparkl/context.go:119`). Close takes what is being sent at that moment and
   returns; a stage four that arrives later blocks for ever on the channel and its storage
   is never closed.
4. `inverse_masked` (`igraph/index.go:271`). A triple that the predicate mask drops does not
   produce its inverse, although the inverse may be in the mask, and an inverse is added
   without asking the mask; the doc of MarkInverse (496) says each call of AddTriple results
   in one of its inverse. The model does what the code does.

Met while modelling, and not the subject of a run:

* StoreContext: a value or a child whose entity is unknown is dropped, and the `ErrNoEntity`
  is not reported (context.go:196, 238; `dropped` in the model), although the doc of Store
  says "Any error that occurs is returned only by Wait" (141). Finding 1 is one way there.
* Index: a triple that is added again is stored and counted again (igraph/index.go:289-296),
  though it adds no edge. The docs say it has no effect (255) and that TripleCount counts
  distinct triples (57-58).
* Loading: a goroutine of Store lets Wait pass before it reports its progress
  (context.go:154-155), so that the count may be shown under the next stage or none; the doc
  of Stats makes the caller log to one stage at a time (status.go:27). `WorkerReports` may
  follow `LeaveStage`.
* StoreContext: the error of `storage.Finalize` is reported after the last
  `childAddWait.Done` (context.go:246), that of onFinish after `extractWait.Done` (154-155),
  and Wait may have returned; Close drops the errors of the closers it collects (119-120).
  These are the late errors of `OtherErrorsAreReturned`. With storages on disk, a stage four
  of a root that runs after Export closed its storage uses a nil LevelDB (`crashed`).
* `Index.Close` leaves the triples open (`ClosedBy` in `MakeIndex`). On disk a URI that is
  added twice is counted twice and stored once. `NewDiskStorage` returns a nil storage and a
  nil error for a path that exists (map_disk.go:72-80).
* Stats: "no further edits may be made" once done (status.go:31-36), yet DoStage ends the
  handler stage after Prepare has closed the statistics, and SetCT asks before it locks.
* headache starts the server before the goroutine that sets the render flags
  (ui_run.go:62-114), and setupMux freezes the flags at the first request; cmd/hangover sets
  them before it listens.
* Loading page: the warning "out-of-order response" also meets answers in order that are
  merely late, see `PageOpens`.
* Entity page: a result of Graphviz without an `<svg>` throws where nobody catches, and the
  page says *Loading* for ever (`thrown`); a colour may be given twice after highlights were
  switched off one by one; the name of a box, `_:d1`, is free unless a URI has this text;
  the set `uriSet` of graph.ts is never read.
* build.mjs takes any exit status of yarn for success, only `child.error` rejects; a run that
  dies between the bundler and writeFile leaves a `dist` that the old assets_dist.go does
  not name.
* Listings in html.go: there is no previous link on the second page (prev = 0), and the last
  link points one entity before a page boundary (html.go:320).

## 6 What is proved

TLAPS checks the proofs for all values of the constants, from the named assumptions of the
modules: `LabelAssumption` (`NoLabel` is no label, `MaxID` is a number), `IndexAssumption`
(no set of ids is the nil mask), `MakeIndexAssumption` (an input is a sequence of tokens; a
pathbuilder gives both masks or none, and they name finitely many labels),
`StoragesAssumption` (a path ends in a URI, `NoEntity` is not an entity), `PlanAssumption`
and `BoundsAssumption` of Loading, `PathsAssumption` (a path array is a class, a predicate,
a class and so on, nodes are finitely many numbers, and the element that stands for a
failure is no path), `TableAssumption`, `LineAssumption` and `FrameAssumption` of the
scripts, `EntitiesAssumption` (what the two templates write: URIs in the cells, a JSON text
with at least its quotes for a datum, and no label `_:d1`, since the labels of the index are
IRIs or what stands behind the `_:` of a blank node), `EntryAssumption` of the build, and of
StoreContext `StoreContextAssumption` (finitely many bundles, at most one parent each) and
`TreeAssumption` (every bundle can be reached from the roots, stated as: a set that holds
the roots and is closed under children is the set of all bundles). TLC evaluates them in the
runs.

**IMapProofs**, for every set of labels and every `MaxID`: `TypeCorrect`, `LiteralsResolve`,
`CanonicalsAreFixpoints`, `LiteralIDsStay`, `IdentityClosed`, and `Refinement`, that IMap
implements LabelPartition. They rest on `InductiveInvariant`, and that on LabelMapProofs:
what `AddNew`, `Next` and `MarkIdentical` do to a map value. None of the properties is
inductive alone: that a merge redirects the right labels needs literal ids to be injective
and below the counter, that they are needs reverse to be their inverse, and that a class is
not merged too far needs an inductive form of the closure: for each equivalence `E` that
contains the marked pairs, labels with one canonical id are related by `E`. Unfolding the
least equivalence this way avoids any induction over chains of pairs. The invariant also
says what remains true after a storage error (`failed`), when only the literal half of the
map is promised.

**MakeIndexProofs**, for every input, every pair of masks and every choice of predicates:
all six invariants the run `make_index` checks, `TypeCorrect`, `AlwaysMirrored`,
`AlwaysBestLabel`, `IDsAreUnambiguous`, `AlwaysCurrent` and `IndexIsExact`. The argument has
two layers. `Sound` is what one call keeps: the labels are a sound map value, triples and
sources are numbered by one counter, every stored triple is `Good` (its ids resolve, and the
canonical ones are those the labels have now), and both indexes file every edge under its
best triple and count each conflict. `MarkIdentical` would break the last two, so `Passes`
adds that nothing is stored before the third pass; from then on labels only grow, and the
lemmas `Grows` of LabelMapProofs say that a known label keeps its ids and a new one gets new
ids. That the canonical ids of a triple resolve too is kept by every step on its own
(`PredicatesNamed`). `PassesExact` is what the passes keep: when `n` tokens have been read,
the masks hold the ids of the labels the pathbuilders name, the inverses are the pairs of
the `owl:inverseOf` tokens among the `n`, and the edges and data are those that the masks
admit of the `n` tokens, with the inverses of the edges; `MasksKeepTrack` says the same of
the counters of masked triples. At the end of the file that is `EdgesAreExpected`
(`IndexIsExact`). Its condition that no predicate has two inverses is the one the code
assumes (index.go:493). Until it fails for the tokens read, each pair of inverses stands in
the map in both directions; after that nothing is claimed of the edges.

**StoreContextProofs**, for any tree of bundles, any fields, either engine, any failing
calls and any that answer `ErrNoEntity`: `TypeCorrect`, `NobodyWritesAfterWait`,
`AddAlwaysExclusive`, `WaitGroupsUsedOnce`, `WaitIsComplete`, `OtherErrorsReturned`,
`LoadingFindsOpenStorages` and `ExportsTheTree`. The argument counts goroutines. `Owed` is
the set of calls of `extractWait.Done` to come, one pair for each goroutine of a bundle and
each of its fields, `Pending` the children that have not been added to a waiting parent.
Each WaitGroup is at least the cardinality of its set (`ExtractCounts`, `ChildCounts`), so
zero means that the set is empty: nobody extracts, nobody adds. It is an inequality because
`Add(len(children))` comes before the children start. On top of that, the stages of a bundle
(`Stages`), what each barrier guarantees (`Barriers`) and where an error is while nobody has
returned it (`ErrorsKept`) are preserved by every action. `OtherErrorsReturned` and
`WaitIsComplete` are about what the code means to report and to do: neither claims that
nothing was dropped by `ErrNoEntity`, which is not true. `WaitIsComplete` needs one more
invariant, that a bundle which has ended its stage has all it will get, and `TreeAssumption`
for the bundles nobody started. `LoadingFindsOpenStorages` needs that a storage is closed by
the goroutine that exports it or by Close after all of these (`ClosedLast`), and that no
root is below another. What is below a root is the smallest set that holds it and is closed
under children, so that a set like that bounds it without an induction over the tree.

`ExportsTheTree` is the refinement of `TreeExport`. A bundle is full when it has all
entities, its fields were read to the end, its own entities were offered to its parent, and
none of the calls for that failed; it is lossy when one of them answered `ErrNoEntity`,
which is settled when it gets full; a root is handed over when its goroutine passed
`Exporter.End` without an error. The simulation goes by steps: what completes a bundle
happens before Wait returns, since whoever does it is counted, and is `Fill` or a stutter;
the return of Wait is `Begin` or `GiveUp`, where `WaitIsComplete` is what `Begin` asks; the
end of `LoadEntities` is `ExportRoot`; `ExportDone` is `Return`. The invariant `Fresh` says
that nothing is lost: nothing was added to a bundle before its first stage, and to its
parent before the parent's fourth, so that a full bundle stays full.

 **StorageProofs**, for every set of URIs, paths, slots and values: `StoragesTypeCorrect`,
`LoadsAlwaysAgree`, `ListingsAgreeBelowRoots`, `DiskRefinement` and `MemoryRefinement`, that
both engines implement EntityStore. The invariant: the record an update is about to write is
the stored one with one value appended (`UpdatesCurrent`), which is preserved only because
at most one update exists (`OneUpdate`, the lock); an index entry of the engine in memory
leads to an entity of its URI, so that two URIs never share an entity (`MemoryWellFormed`);
and the two contents are equal. For the listings both engines count the calls of Add, and
the index in memory knows every entity of the slice (`Counted`); with no URI added twice the
slice and the keys on disk then are in bijection. `ListingsAgreeBelowRoots` is restricted to
this case, and to parent indexes other than 0, where the engines differ (finding 1). Each
action then maps to `Add`, to `Extend`, or to a stutter: the read half of an update is a
stutter, the write half is `Extend`.

**LoadingProofs**, for any plan of stages, goroutines and requests: `TypeCorrect`,
`ServedWhenReady` and `ProgressNeverOlder`. That a page is served from complete data rests
on `DoneMeansGiven`, the parts the viewer has at each step of Prepare. That progress does
not go back rests on `LatestIsNewer`: the one answer the page would accept, the latest, was
copied after what is shown now; and a page that starts over shows nothing, or the server is
done.

**PathsProofs**, for every graph, every path array and every consumer: `TypeCorrect` and
`IterationIsExact`, that a finished iteration has yielded the described paths, each once,
and a stopped or failed one no others. While nothing has gone wrong (`Live`), the stack of
loop bodies is a chain (`Chain`): each body works on an element that goes through the one
below, and the node it took there is not visited again. A described path is *pending* when
a Fetch on the stack has yet to visit its next node, or the call being made leads to it; the
consumer has exactly the paths that are not pending (`Progress`). Each action hands over one
path or moves one from one stage to the next. At the end nothing is pending. Once something
did go wrong, `Over` says that the consumer gets nothing more.

**AssetsProofs**, for any entity, table, number of colours, length of the lines and windows:
`RowsAlwaysInOrder`, `FirstHighlightsTellApart`, `GraphsShowAllStatements`, `TipsyGetsDataOnce`
and `TypeCorrect`; and for any entries of the build `BuildTypeCorrect` and
`GeneratedMatches`.

* Rows: the rows of a table are *split* when those with the URI come first and both parts
  ascend. A sort by the comparator of bringToFront gives a split (`SortedIsSplit`), one exists
  (`SplitExists`, otherwise `Sorted` would mean nothing), and it shows each row once. That
  taking out and appending each row in turn ends with the order of the array
  (`RerenderedIsOrder`) is an induction on the number of rows moved: the last `k` rows of the
  page are the first `k` of the array.
* Colours: until they run out the index of the next colour equals the number of highlights
  set, and no colour in use is above it (`ColorsInUse`). Of later highlights
  `FirstHighlightsTellApart` claims only that equal URIs have one colour.
* Graph: the graph of the statements has the nodes, boxes and edges that `IsGraphOf` counts
  (`BoxPerDatum`, `NamesAreUnique`, `EdgesJoinNodes`, `EdgesPerTriple`, `EdgePerBox`), and
  `CutInLines` shows by induction on the length that the lines add up to the text.
* TIPSY: the handler is registered from onload until the frame has said it is ready and the
  message was handled (`Handshake`).
* Build: what `dist` and the pages found are at each step (`DistInStep`).

The inductions over numbers do not use the library's induction theorems, whose parameter is
an operator: `SetInduction`, that a set with 0 and all successors is that of the numbers, is
proved from the well-foundedness of finite sets under inclusion.

Only model-checked is liveness (`Terminates`, `ExportReturns`, `PageOpens`, `GraphSettles`),
which is beyond the prover: every invariant and every refinement a run checks is a theorem.

## 7 What is not modelled

* LevelDB and gob below the storages, and the cache directory: the maps of the index are
  modelled by their contents.
* N-Quads and XML parsing, SQL text, HTML and JSON rendering, the Fyne window of headache,
  the terminal: text in, text out.
* `Cache` (cache.go): a sequential construction of lookup tables.
* The exporters: one call per entity, which `StoreContext` has; rows are taken from a batch
  under a lock.
* `Index.Compact` (it changes no contents), the `-debug` options, licences and the footer.
* The handlers of the viewer behind the loading page: they read finished data.

## 8 Plan

The modules were written in this order, the most important behaviour first: interning
(`LabelMap` to `IMapProofs`), the index, `StoreContext`, the storages with their proofs,
`Paths`, then `Stats` and `Loading`, the scripts of the pages, and the build.

What could follow: the index as a set of edges over classes of labels, implemented by
`MakeIndex`, for which the invariants of `MakeIndexProofs` say what a step needs; the cache
directory over two starts; the render flags of headache.

## 9 Running the checks

    tlc -workers 2 -config IMap.cfg MCIMap
    tlapm IMapProofs.tla

Section 3 lists module and configuration of each run; none takes more than a minute or two.
