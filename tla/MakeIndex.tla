------------------------------- MODULE MakeIndex -------------------------------
(***************************************************************************)
(* sparkl.MakeIndex (internal/sparkl/index.go): the index is filled in     *)
(* three passes over the same source, after the masks and in an order that *)
(* makes every identity known before the first inverse, and every inverse  *)
(* before the first triple.                                                *)
(***************************************************************************)
EXTENDS Index, Sequences

CONSTANTS SameAs,      \* Predicates.SameAs
          InverseOf,   \* Predicates.InverseOf
          Datum,       \* marks the object of a token with HasDatum
          Inputs,      \* the inputs explored: sequences of tokens
          Masks        \* the predicates and datatype properties of the
                       \* pathbuilders explored, both NoMask without one

ASSUME MakeIndexAssumption ==
    /\ Inputs \subseteq Seq([s : Label, p : Label, o : Label \union {Datum}, g : Source])
    /\ \A m \in Masks : (m.predicates = NoMask) <=> (m.data = NoMask)
    /\ \A m \in Masks : \A ls \in {m.predicates, m.data} \ {NoMask} :
          ls \subseteq Label /\ IsFiniteSet(ls)

VARIABLES source,   \* the tokens of the file
          mask,     \* IndexOptions.Mask
          cursor,   \* the next token Next() returns; past the end is io.EOF
          phase,
          handles   \* storages of the engine that are open

makeVars == <<source, mask, cursor, phase, handles>>
vars == <<indexVars, makeVars>>

Storages == {"forward", "reverse", "data", "inverses", "pso", "pos", "triples"}
Phases == {"mask", "sameAs", "inverse", "triples", "finalize", "done", "closed", "failed"}

TypeOK ==
    /\ IndexTypeOK
    /\ source \in Inputs /\ mask \in Masks
    /\ cursor \in 1..(Len(source) + 1)
    /\ phase \in Phases
    /\ handles \subseteq Storages

\* Index.Reset on a new index has opened every storage.
Init ==
    /\ IndexInit
    /\ source \in Inputs
    /\ mask \in Masks
    /\ cursor = 1
    /\ phase = "mask"
    /\ handles = Storages

\* setMask: the predicate mask, then the data mask.
SetMask ==
    /\ phase = "mask"
    /\ phase' = "sameAs"
    /\ UNCHANGED <<source, mask, cursor, handles>>
    /\ IF mask.predicates = NoMask THEN UNCHANGED indexVars
       ELSE     /\ labels.id + Cardinality(Fresh(labels, mask.predicates \union mask.data)) =< MaxID
                /\ \E first \in Orders(labels, mask.predicates) :
                     LET m == AddAll(labels, mask.predicates, first)
                     IN  \E second \in Orders(m, mask.data) : labels' = AddAll(m, mask.data, second)
                /\ pMask' = MaskOf(labels', mask.predicates)
                /\ dMask' = MaskOf(labels', mask.data)
                /\ UNCHANGED <<data, inverses, psoIndex, posIndex, triples, triple, sources, stats, finalized>>

Token == source[cursor]
AtEnd == cursor > Len(source)

\* Mutant of Rewind: a reader that was used before goes on where it stopped.
Rewind_Missing == UNCHANGED cursor

\* QuadSource.Open: a reader that was used before starts over.
Rewind == cursor' = 1

\* indexSameAs: one token of the first pass.
ScanSameAs ==
    /\ phase = "sameAs" /\ ~AtEnd
    /\ cursor' = cursor + 1
    /\ UNCHANGED <<source, mask, phase, handles>>
    /\ IF Token.o # Datum /\ Token.p \in SameAs
       THEN MarkIdenticalCall(Token.s, Token.o)
       ELSE UNCHANGED indexVars

\* indexInverseOf: one token of the second pass.
ScanInverse ==
    /\ phase = "inverse" /\ ~AtEnd
    /\ cursor' = cursor + 1
    /\ UNCHANGED <<source, mask, phase, handles>>
    /\ IF Token.o # Datum /\ Token.p \in InverseOf
       THEN MarkInverse(Token.s, Token.o)
       ELSE UNCHANGED indexVars

\* indexData: one token of the third pass.
ScanTriples ==
    /\ phase = "triples" /\ ~AtEnd
    /\ cursor' = cursor + 1
    /\ UNCHANGED <<source, mask, phase, handles>>
    /\ IF Token.o = Datum
       THEN MaskData(Token.p) \/ AddData(Token.s, Token.p, Token.g)
       ELSE MaskTriple(Token.p) \/ AddTriple(Token.s, Token.p, Token.o, Token.g)

\* Mutant of AfterPass: inverses are read before the identities are known.
AfterPass_Swapped(p) ==
    CASE p = "sameAs" -> "triples" [] p = "inverse" -> "finalize" [] p = "triples" -> "inverse"

\* The pass that follows; the second one is skipped when there is no
\* predicate to look for.
AfterPass(p) ==
    CASE p = "sameAs" /\ InverseOf # {} -> "inverse"
      [] p = "sameAs" /\ InverseOf = {} -> "triples"
      [] p = "inverse" -> "triples"
      [] p = "triples" -> "finalize"

\* io.EOF ends a pass; the index is compacted, which changes nothing.
EndPass ==
    /\ phase \in {"sameAs", "inverse", "triples"} /\ AtEnd
    /\ phase' = AfterPass(phase)
    /\ Rewind
    /\ UNCHANGED <<indexVars, source, mask, handles>>

FinalizeStep ==
    /\ phase = "finalize"
    /\ FinalizeIndex
    /\ phase' = "done"
    /\ UNCHANGED <<source, mask, cursor, handles>>

\* Index.Close: triples is not among the storages it closes.
ClosedBy == Storages \ {"triples"}

\* A reader or storage error at any point: closeIndex.
Fail ==
    /\ phase \in {"mask", "sameAs", "inverse", "triples", "finalize"}
    /\ phase' = "failed"
    /\ handles' = handles \ ClosedBy
    /\ UNCHANGED <<indexVars, source, mask, cursor>>

\* glass.Create closes the index when the cache has been built.
CloseIndex ==
    /\ phase = "done"
    /\ phase' = "closed"
    /\ handles' = handles \ ClosedBy
    /\ UNCHANGED <<indexVars, source, mask, cursor>>

Ended == phase \in {"closed", "failed"} /\ UNCHANGED vars

Next ==
    \/ SetMask \/ ScanSameAs \/ ScanInverse \/ ScanTriples \/ EndPass
    \/ FinalizeStep \/ Fail \/ CloseIndex \/ Ended

Spec == Init /\ [][Next]_vars

-------------------------------------------------------------------------------
\* What the input says, in terms of classes of identical labels.
C(l) == Forward(labels, l)
Tokens == {source[i] : i \in DOMAIN source}
ObjectTokens == {t \in Tokens : t.o # Datum}
Admitted(ls, t) == ls # NoMask => t.p \in ls
Partners(c) ==
    {C(t.o) : t \in {u \in ObjectTokens : u.p \in InverseOf /\ u.s # u.o /\ C(u.s) = c}}
      \union {C(t.s) : t \in {u \in ObjectTokens : u.p \in InverseOf /\ u.s # u.o /\ C(u.o) = c}}

\* "Each label is assumed to have at most one inverse" (index.go:493).
AtMostOneInverse == \A c \in ID : Cardinality(Partners(c)) =< 1

\* The edges between classes: those the input states with a predicate the
\* mask names, and what follows from these and the inverses.  The mask is asked
\* of the stated predicate only: a triple that is masked out implies nothing,
\* and the inverse of one that is not gets in whatever the mask says of it.
ObjectEdgesExact ==
    AtMostOneInverse =>
      {k \in DOMAIN psoIndex : k[3] \notin data} =
        UNION {{<<C(t.p), C(t.s), C(t.o)>>} \union {<<i, C(t.o), C(t.s)>> : i \in Partners(C(t.p))} :
               t \in {u \in ObjectTokens : Admitted(mask.predicates, u)}}

\* Every datum of the input that passes the mask hangs off the class of its
\* subject, once for each time it was stated.
DataExact ==
    \A c, d \in ID :
        Cardinality({k \in DOMAIN psoIndex : k[1] = c /\ k[2] = d /\ k[3] \in data}) =
        Cardinality({i \in DOMAIN source : /\ source[i].o = Datum /\ Admitted(mask.data, source[i])
                                           /\ C(source[i].p) = c /\ C(source[i].s) = d})

\* Every token the masks keep out is counted.
MaskedExact ==
    /\ stats["maskedPred"] = Cardinality({i \in DOMAIN source : /\ source[i].o # Datum
                                                               /\ ~Admitted(mask.predicates, source[i])})
    /\ stats["maskedData"] = Cardinality({i \in DOMAIN source : /\ source[i].o = Datum
                                                               /\ ~Admitted(mask.data, source[i])})

\* The finished index holds exactly the edges and data the masks let through,
\* with the inverses of those edges: none is filed under an id that
\* identification made stale, none is missing, none is invented; and each of
\* the six statistics counts what it should.
EdgesAreExpected == phase = "done" => ObjectEdgesExact /\ DataExact /\ StatsMatchEdges /\ MaskedExact

\* "each call to AddTriple(s, left, o) will also result in a call to
\* AddTriple(o, right, s)" (index.go:496).  Does not hold: AddTriple returns
\* before it looks for an inverse when left is masked out.
InversesFollow ==
    phase = "done" =>
      \A t, u \in ObjectTokens :
          u.p \in InverseOf /\ u.s = t.p /\ u.o # t.p /\ (mask.predicates # NoMask => u.o \in mask.predicates)
            => <<C(u.o), C(t.o), C(t.s)>> \in DOMAIN psoIndex

\* The canonical ids inside a stored triple are the ones its labels have now.
\* (Index.MarkIdentical may be called at any time; only the order of the
\* passes makes this true.)
CanonicalsAreCurrent ==
    \A i \in DOMAIN triples :
        LET t == triples[i]
            now(n) == IF labels.reverse[t.items[n].literal] = NoLabel THEN t.items[n].literal
                      ELSE C(labels.reverse[t.items[n].literal])
        IN  IF t.role = InverseRole
            THEN t.items[1].canonical = now(3) /\ t.items[3].canonical = now(1)
            ELSE \A n \in 1..3 : t.items[n].canonical = now(n)
===============================================================================
