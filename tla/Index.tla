-------------------------------- MODULE Index --------------------------------
(***************************************************************************)
(* The build side of igraph.Index (internal/triplestore/igraph/index.go):  *)
(* masks, identities, inverses, triples and data, resolution of            *)
(* conflicting triples, Finalize.  An Index is built by one goroutine, so  *)
(* a call is one step.  The calls may come in any order here; the order    *)
(* the program uses is in MakeIndex.                                       *)
(***************************************************************************)
EXTENDS LabelMap, FiniteSets

Fn == INSTANCE Functions

CONSTANTS Source,     \* the named graphs triples come from
          NoMask,     \* a nil mask
          MaxTriple   \* bound on the counter of triple and source ids

ASSUME IndexAssumption == MaxTriple \in Nat /\ \A ids \in SUBSET ID : ids # NoMask

\* Role, in the order resolveLabelConflict compares.
Regular     == 0
InverseRole == 1
Data        == 2

VARIABLES labels,     \* the IMap: a MapValue
          data,       \* ids that carry a datum
          inverses,   \* canonical predicate -> canonical predicate
          psoIndex,   \* <<predicate, subject, object>> -> triple id
          posIndex,   \* <<predicate, object, subject>> -> triple id
          triples,    \* triple id -> role, source, literal and canonical ids
          pMask, dMask,
          triple,     \* last triple or source id handed out
          sources,    \* source -> id; reverseSource is its inverse
          stats,
          finalized

indexVars == <<labels, data, inverses, psoIndex, posIndex, triples, pMask, dMask,
               triple, sources, stats, finalized>>

TID == 1..MaxTriple
StatNames == {"direct", "inverse", "datum", "maskedPred", "maskedData", "conflict"}
IndexTriple == [role : {Regular, InverseRole, Data}, source : TID, items : TripleID \X TripleID \X TripleID]

IndexTypeOK ==
    /\ labels \in MapValue
    /\ data \subseteq ID
    /\ DOMAIN inverses \subseteq ID /\ \A i \in DOMAIN inverses : inverses[i] \in ID
    /\ \A x \in {psoIndex, posIndex} :
          /\ DOMAIN x \subseteq ID \X ID \X ID
          /\ \A k \in DOMAIN x : x[k] \in DOMAIN triples
    /\ DOMAIN triples \subseteq TID /\ \A i \in DOMAIN triples : triples[i] \in IndexTriple
    /\ pMask # NoMask => pMask \subseteq ID
    /\ dMask # NoMask => dMask \subseteq ID
    /\ triple \in 0..MaxTriple
    /\ DOMAIN sources \subseteq Source /\ \A g \in DOMAIN sources : sources[g] \in TID
    /\ stats \in [StatNames -> Nat]
    /\ finalized \in BOOLEAN

Nothing == [x \in {} |-> NoID]
Put(f, k, v) == [x \in DOMAIN f \union {k} |-> IF x = k THEN v ELSE f[x]]
\* ID.Inc panics when the ids are used up; a call that could get there is cut off.
Room(ls, n) == labels.id + n =< MaxID \/ \A l \in ls : Has(labels, l)
Increase(st, name) == [st EXCEPT ![name] = @ + 1]

\* The state Reset leaves behind.
IndexInit ==
    /\ labels = EmptyMap
    /\ data = {}
    /\ inverses = Nothing
    /\ psoIndex = Nothing
    /\ posIndex = Nothing
    /\ triples = Nothing
    /\ pMask = NoMask
    /\ dMask = NoMask
    /\ triple = 0
    /\ sources = Nothing
    /\ stats = [n \in StatNames |-> 0]
    /\ finalized = FALSE

-------------------------------------------------------------------------------
\* setMask: every label of the set is added, in the order the Go map yields,
\* and the mask holds the canonical ids they have now.
Fresh(m, ls) == {l \in ls : ~Has(m, l)}
AddAll(m, ls, order) ==
    [forward |-> [l \in Label |-> IF l \in Fresh(m, ls)
                                  THEN [canonical |-> order[l], literal |-> order[l]]
                                  ELSE m.forward[l]],
     reverse |-> [i \in ID |-> IF \E l \in Fresh(m, ls) : order[l] = i
                               THEN CHOOSE l \in Fresh(m, ls) : order[l] = i
                               ELSE m.reverse[i]],
     id      |-> m.id + Cardinality(Fresh(m, ls))]
Orders(m, ls) == Fn!Bijection(Fresh(m, ls), (m.id + 1)..(m.id + Cardinality(Fresh(m, ls))))

\* Mutant of MaskOf: the ids are looked up before the labels are added.
MaskOf_Unadded(m, ls) == {Forward(labels, l) : l \in ls}

MaskOf(m, ls) == {Forward(m, l) : l \in ls}

SetPredicateMask(ls) ==
    /\ labels.id + Cardinality(Fresh(labels, ls)) =< MaxID
    /\ \E order \in Orders(labels, ls) : labels' = AddAll(labels, ls, order)
    /\ pMask' = MaskOf(labels', ls)
    /\ UNCHANGED <<data, inverses, psoIndex, posIndex, triples, dMask, triple, sources, stats, finalized>>

SetDataMask(ls) ==
    /\ labels.id + Cardinality(Fresh(labels, ls)) =< MaxID
    /\ \E order \in Orders(labels, ls) : labels' = AddAll(labels, ls, order)
    /\ dMask' = MaskOf(labels', ls)
    /\ UNCHANGED <<data, inverses, psoIndex, posIndex, triples, pMask, triple, sources, stats, finalized>>

\* addMask: without a mask everything passes, with one a predicate passes
\* whose literal id is in it.
Admits(mask, p) ==
    mask # NoMask => Has(labels, p) /\ labels.forward[p].literal \in mask

-------------------------------------------------------------------------------
\* MarkIdentical and MarkInverse.
MarkIdenticalCall(same, old) ==
    /\ ~finalized
    /\ Room({same, old}, 2)
    /\ labels' = MarkIdentical(labels, same, old)
    /\ UNCHANGED <<data, inverses, psoIndex, posIndex, triples, pMask, dMask, triple, sources, stats, finalized>>

\* l and r are compared as pairs: two different labels pass even when they
\* have the same canonical id.
MarkInverse(left, right) ==
    /\ ~finalized
    /\ Room({left, right}, 2)
    /\ labels' = BothAdded(labels, left, right)
    /\ LET l == labels'.forward[left]
           r == labels'.forward[right]
       IN  inverses' = IF l = r THEN inverses
                       ELSE Put(Put(inverses, l.canonical, r.canonical), r.canonical, l.canonical)
    /\ UNCHANGED <<data, psoIndex, posIndex, triples, pMask, dMask, triple, sources, stats, finalized>>

-------------------------------------------------------------------------------
\* Mutant of Winner: the newcomer wins every conflict.
Winner_Latest(ts, old, new) == new

\* resolveLabelConflict: the triple with the smaller role, the older on a tie.
Winner(ts, old, new) == IF ts[new].role < ts[old].role THEN new ELSE old

\* ThreeStorage.Add for key k and label l.
StorageAdd(index, ts, k, l) ==
    Put(index, k, IF k \in DOMAIN index THEN Winner(ts, index[k], l) ELSE l)

\* Mutant of Insert: the second index is keyed like the first.
Insert_SameOrder(x, ts, s, p, o, l, kind) ==
    LET conflicted == <<p, s, o>> \in DOMAIN x.pso
    IN  [pso   |-> StorageAdd(x.pso, ts, <<p, s, o>>, l),
         pos   |-> StorageAdd(x.pos, ts, <<p, s, o>>, l),
         stats |-> IF conflicted THEN x.stats ELSE Increase(x.stats, kind)]

\* insert, and what its callers do with the answer: every conflict of two
\* different triples counts once per index, a triple without one counts in
\* the statistic of its kind.
Insert(x, ts, s, p, o, l, kind) ==
    LET old(index, k) == k \in DOMAIN index
        clash(index, k) == IF old(index, k) /\ index[k] # l THEN 1 ELSE 0
        conflicted == old(x.pso, <<p, s, o>>) \/ old(x.pos, <<p, o, s>>)
        counted == [x.stats EXCEPT !["conflict"] =
                       @ + clash(x.pso, <<p, s, o>>) + clash(x.pos, <<p, o, s>>)]
    IN  [pso   |-> StorageAdd(x.pso, ts, <<p, s, o>>, l),
         pos   |-> StorageAdd(x.pos, ts, <<p, o, s>>, l),
         stats |-> IF conflicted THEN counted ELSE Increase(counted, kind)]

Indexes == [pso |-> psoIndex, pos |-> posIndex, stats |-> stats]
SetIndexes(x) == psoIndex' = x.pso /\ posIndex' = x.pos /\ stats' = x.stats

\* addSource: source ids come from the same counter as triple ids.
SourceID(g) == IF g \in DOMAIN sources THEN sources[g] ELSE triple + 1
AfterSource(g) == IF g \in DOMAIN sources THEN triple ELSE triple + 1

\* Mutant of InverseItems: the canonical ids are not swapped.
InverseItems_Unswapped(s, i, p, o) ==
    << s, [canonical |-> i, literal |-> p.literal], o >>

\* The inferred triple is filed under the swapped canonical ids and keeps the
\* literal ids of the triple it was inferred from.
InverseItems(s, i, p, o) ==
    << [canonical |-> o.canonical, literal |-> s.literal],
       [canonical |-> i,           literal |-> p.literal],
       [canonical |-> s.canonical, literal |-> o.literal] >>

\* AddTriple for a predicate that is masked out.
MaskTriple(p) ==
    /\ ~finalized
    /\ ~Admits(pMask, p)
    /\ stats' = Increase(stats, "maskedPred")
    /\ UNCHANGED <<labels, data, inverses, psoIndex, posIndex, triples, pMask, dMask, triple, sources, finalized>>

AddTriple(subject, predicate, object, g) ==
    /\ ~finalized
    /\ Admits(pMask, predicate)
    /\ Room({subject, predicate, object}, 3) /\ AfterSource(g) + 2 =< MaxTriple
    /\ labels' = AddNew(AddNew(AddNew(labels, predicate), subject), object)
    /\ sources' = Put(sources, g, SourceID(g))
    /\ LET s == labels'.forward[subject]
           p == labels'.forward[predicate]
           o == labels'.forward[object]
           id == AfterSource(g) + 1
           direct == Put(triples, id, [role |-> Regular, source |-> SourceID(g), items |-> <<s, p, o>>])
           first == Insert(Indexes, direct, s.canonical, p.canonical, o.canonical, id, "direct")
       IN  IF p.canonical \notin DOMAIN inverses
           THEN triple' = id /\ triples' = direct /\ SetIndexes(first)
           ELSE LET i == inverses[p.canonical]
                    both == Put(direct, id + 1, [role |-> InverseRole, source |-> SourceID(g),
                                                 items |-> InverseItems(s, i, p, o)])
                IN  /\ triple' = id + 1
                    /\ triples' = both
                    /\ SetIndexes(Insert(first, both, o.canonical, i, s.canonical, id + 1, "inverse"))
    /\ UNCHANGED <<data, inverses, pMask, dMask, finalized>>

\* AddData for a predicate that is masked out.
MaskData(p) ==
    /\ ~finalized
    /\ ~Admits(dMask, p)
    /\ stats' = Increase(stats, "maskedData")
    /\ UNCHANGED <<labels, data, inverses, psoIndex, posIndex, triples, pMask, dMask, triple, sources, finalized>>

\* Mutant of AddData: the id of the datum is taken without advancing the counter.
AddData_SharedID(subject, predicate, g) ==
    /\ ~finalized
    /\ Admits(dMask, predicate)
    /\ labels.id + 3 =< MaxID /\ AfterSource(g) + 1 =< MaxTriple
    /\ LET known == AddNew(labels, predicate)
           o == known.id + 1
           id == AfterSource(g) + 1
           m == AddNew(known, subject)
           s == m.forward[subject]
           p == m.forward[predicate]
           ts == Put(triples, id, [role |-> Data, source |-> SourceID(g),
                                   items |-> <<s, p, [canonical |-> o, literal |-> o]>>])
       IN  /\ labels' = m /\ data' = data \union {o}
           /\ sources' = Put(sources, g, SourceID(g))
           /\ triple' = id /\ triples' = ts
           /\ SetIndexes(Insert(Indexes, ts, s.canonical, p.canonical, o, id, "datum"))
    /\ UNCHANGED <<inverses, pMask, dMask, finalized>>

\* The datum gets an id of its own, which stands for no label.
AddData(subject, predicate, g) ==
    /\ ~finalized
    /\ Admits(dMask, predicate)
    /\ labels.id + 3 =< MaxID /\ AfterSource(g) + 1 =< MaxTriple
    /\ LET withDatum == NextID(AddNew(labels, predicate))
           o == withDatum.id
           id == AfterSource(g) + 1
           m == AddNew(withDatum, subject)
           s == m.forward[subject]
           p == m.forward[predicate]
           ts == Put(triples, id, [role |-> Data, source |-> SourceID(g),
                                   items |-> <<s, p, [canonical |-> o, literal |-> o]>>])
       IN  /\ labels' = m /\ data' = data \union {o}
           /\ sources' = Put(sources, g, SourceID(g))
           /\ triple' = id /\ triples' = ts
           /\ SetIndexes(Insert(Indexes, ts, s.canonical, p.canonical, o, id, "datum"))
    /\ UNCHANGED <<inverses, pMask, dMask, finalized>>

\* A second call answers ErrFinalized.
FinalizeIndex ==
    /\ ~finalized
    /\ finalized' = TRUE
    /\ UNCHANGED <<labels, data, inverses, psoIndex, posIndex, triples, pMask, dMask, triple, sources, stats>>

\* The calls in any order.
IndexNext ==
    \/ \E ls \in SUBSET Label : SetPredicateMask(ls) \/ SetDataMask(ls)
    \/ \E x, y \in Label : MarkIdenticalCall(x, y) \/ MarkInverse(x, y)
    \/ \E s, p, o \in Label, g \in Source : AddTriple(s, p, o, g) \/ MaskTriple(p)
    \/ \E s, p \in Label, g \in Source : AddData(s, p, g) \/ MaskData(p)
    \/ FinalizeIndex

IndexSpec == IndexInit /\ [][IndexNext]_indexVars

-------------------------------------------------------------------------------
Edge(t) == <<t.items[2].canonical, t.items[1].canonical, t.items[3].canonical>>

\* The two indexes hold the same edges under the same triple ids: paths.go
\* walks forwards through one and backwards through the other.  The edge of
\* every stored triple is one of theirs; the triple itself is not reached when
\* it lost a conflict: it stays stored under an id that neither index holds, and
\* TripleCount counts it, though index.go:57-58 and 255 say it has no effect.
Mirrored ==
    /\ \A k \in DOMAIN psoIndex : <<k[1], k[3], k[2]>> \in DOMAIN posIndex
    /\ \A k \in DOMAIN posIndex : <<k[1], k[3], k[2]>> \in DOMAIN psoIndex
    /\ \A k \in DOMAIN psoIndex : psoIndex[k] = posIndex[<<k[1], k[3], k[2]>>]
    /\ \A i \in DOMAIN triples : Edge(triples[i]) \in DOMAIN psoIndex

\* The stored triples filed under an edge.
FiledUnder(k) == {i \in DOMAIN triples : Edge(triples[i]) = k}

\* The triple an edge is labelled with is, of all the triples filed under it,
\* the one with the smallest role and among those the oldest: a triple of the
\* input is never hidden by an inferred one, in whatever order they came.
BestLabel ==
    \A k \in DOMAIN psoIndex :
        LET best == psoIndex[k]
        IN  /\ best \in FiledUnder(k)
            /\ \A i \in FiledUnder(k) :
                  \/ triples[best].role < triples[i].role
                  \/ triples[best].role = triples[i].role /\ best =< i

\* The counters shown to the user: every edge is counted once under the kind
\* that came first, every stored triple beyond those twice as a conflict, once
\* per index.  Part of EdgesAreExpected.
StatsMatchEdges ==
    /\ stats["direct"] + stats["inverse"] + stats["datum"] = Cardinality(DOMAIN psoIndex)
    /\ stats["conflict"] = 2 * (Cardinality(DOMAIN triples) - Cardinality(DOMAIN psoIndex))

\* Triple() finds a label for every literal and canonical id of a triple, a
\* datum for a data triple, and the source.
TriplesResolve ==
    \A i \in DOMAIN triples :
        LET t == triples[i]
            named(n) == /\ labels.reverse[t.items[n].literal] # NoLabel
                        /\ labels.reverse[t.items[n].canonical] # NoLabel
        IN  /\ \E g \in DOMAIN sources : sources[g] = t.source
            /\ named(1) /\ named(2)
            /\ IF t.role = Data THEN t.items[3].literal \in data ELSE named(3)

\* An id means one thing: a label, or a datum; a triple, or a source.  Both
\* pairs share a counter.  So whatever a query reaches can be printed.
IDsMeanOneThing ==
    /\ TriplesResolve
    /\ \A i \in data : labels.reverse[i] = NoLabel /\ i =< labels.id
    /\ \A g \in DOMAIN sources : sources[g] \notin DOMAIN triples
    /\ \A g, h \in DOMAIN sources : sources[g] = sources[h] => g = h
===============================================================================
