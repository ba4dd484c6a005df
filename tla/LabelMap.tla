------------------------------- MODULE LabelMap -------------------------------
(***************************************************************************)
(* The value of an imap.IMap (internal/triplestore/imap/imap.go): labels   *)
(* are interned as pairs of ids, and labels marked identical share the     *)
(* canonical half of the pair.  The operators take such a value m and      *)
(* return the value the Go method leaves behind, so that a caller (the     *)
(* Index) can string several calls together in one atomic action.          *)
(***************************************************************************)
EXTENDS Naturals

CONSTANTS Label,    \* impl.Label: the RDF terms
          NoLabel,  \* the zero label, what Reverse answers for an unknown id
          MaxID     \* the largest id; 2^32 - 1 in the code (IDLen = 4)

ASSUME LabelAssumption == NoLabel \notin Label /\ MaxID \in Nat

NoID == 0
ID == 1..MaxID

TripleID == [canonical : {NoID} \union ID, literal : {NoID} \union ID]
NoTripleID == [canonical |-> NoID, literal |-> NoID]

\* A map value: the two hash maps of IMap (an absent key maps to the zero
\* value, which GetZero returns and Get reports as ok = false) and the id
\* handed out last.
MapValue == [forward : [Label -> TripleID],
             reverse : [ID -> Label \union {NoLabel}],
             id      : {NoID} \union ID]

EmptyMap == [forward |-> [l \in Label |-> NoTripleID],
             reverse |-> [i \in ID |-> NoLabel],
             id      |-> NoID]

Has(m, l) == m.forward[l].literal # NoID

\* IMap.Forward and IMap.Reverse.
Forward(m, l) == m.forward[l].canonical
Reverse(m, i) == IF i \in ID THEN m.reverse[i] ELSE NoLabel

\* IMap.Next: an id that belongs to no label.
NextID(m) == [forward |-> m.forward, reverse |-> m.reverse, id |-> m.id + 1]

\* Mutant of AddNew: the counter is read but not advanced.
AddNew_KeepsCounter(m, l) ==
    IF Has(m, l)
    THEN m
    ELSE [forward |-> [m.forward EXCEPT ![l] = [canonical |-> m.id + 1,
                                                literal   |-> m.id + 1]],
          reverse |-> [m.reverse EXCEPT ![m.id + 1] = l],
          id      |-> m.id]

\* IMap.AddNew (and Add, which only drops the boolean).
AddNew(m, l) ==
    IF Has(m, l)
    THEN m
    ELSE [forward |-> [m.forward EXCEPT ![l] = [canonical |-> m.id + 1,
                                                literal   |-> m.id + 1]],
          reverse |-> [m.reverse EXCEPT ![m.id + 1] = l],
          id      |-> m.id + 1]

\* The map after both labels of MarkIdentical have been added.
BothAdded(m, same, old) == AddNew(AddNew(m, same), old)

\* Mutant of Touched: labels identified with old earlier are left behind.
Touched_OldOnly(m, same, old) ==
    LET b == BothAdded(m, same, old)
    IN  IF Forward(b, same) = Forward(b, old) THEN {} ELSE {old}

\* The labels whose canonical id MarkIdentical replaces: the alias alone when
\* this call added it, else everything that shares its canonical id.
Touched(m, same, old) ==
    LET b == BothAdded(m, same, old)
    IN  {l \in Label :
            /\ Forward(b, same) # Forward(b, old)
            /\ IF Has(AddNew(m, same), old)
               THEN Forward(b, l) = Forward(b, old) /\ l # same
               ELSE l = old}

\* Mutant of Redirect: the literal id is replaced along with the canonical one.
Redirect_BothHalves(m, ls, c) ==
    [forward |-> [l \in Label |->
                    IF l \in ls THEN [canonical |-> c, literal |-> c] ELSE m.forward[l]],
     reverse |-> m.reverse,
     id      |-> m.id]

\* The map with the canonical id of every label in ls replaced by c.
Redirect(m, ls, c) ==
    [forward |-> [l \in Label |->
                    IF l \in ls THEN [canonical |-> c, literal |-> m.forward[l].literal]
                                ELSE m.forward[l]],
     reverse |-> m.reverse,
     id      |-> m.id]

\* Mutant of MarkIdentical: the literal id of same where its canonical id belongs.
MarkIdentical_ToLiteral(m, same, old) ==
    LET b == BothAdded(m, same, old)
    IN  Redirect(b, Touched(m, same, old), b.forward[same].literal)

\* IMap.MarkIdentical.
MarkIdentical(m, same, old) ==
    LET b == BothAdded(m, same, old)
    IN  Redirect(b, Touched(m, same, old), Forward(b, same))

\* IMap.IdentityMap: the labels that are not their own representative.
Representative(m, l) == Reverse(m, Forward(m, l))
IdentityMap(m) == {<<l, Representative(m, l)>> : l \in
                      {k \in Label : Has(m, k) /\ Representative(m, k) # k}}
===============================================================================
