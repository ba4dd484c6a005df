---------------------------- MODULE LabelMapProofs ----------------------------
(***************************************************************************)
(* What the methods of IMap do to a map value, for any set of labels and   *)
(* any number of ids: what the proofs about IMap and MakeIndex rest on.    *)
(***************************************************************************)
EXTENDS LabelMap, TLAPS

\* The inductive strengthening, as a predicate of map values so that it can be
\* carried through the two AddNew calls inside MarkIdentical.
\* An absent label has no ids at all, a present one has two.
HalvesTogether(m) ==
    \A l \in Label : IF Has(m, l) THEN m.forward[l].canonical \in ID
                                  ELSE m.forward[l] = NoTripleID

\* forward and reverse are inverse on literal ids, all of them handed out.
MutuallyInverse(m) ==
    /\ \A i \in ID : m.reverse[i] # NoLabel => i =< m.id /\ m.forward[m.reverse[i]].literal = i
    /\ \A l \in Label : Has(m, l) => m.reverse[m.forward[l].literal] = l

\* A canonical id belongs to a label that is its own representative.
Fixpoints(m) ==
    \A l \in Label : Has(m, l) =>
        LET r == m.reverse[m.forward[l].canonical]
        IN  r \in Label /\ m.forward[r].canonical = m.forward[l].canonical

MapInv(m) == m \in MapValue /\ HalvesTogether(m) /\ MutuallyInverse(m) /\ Fixpoints(m)

-------------------------------------------------------------------------------
\* The empty map satisfies everything.
LEMMA EmptyMapInv == MapInv(EmptyMap)
BY LabelAssumption
   DEF MapInv, EmptyMap, MapValue, TripleID, NoTripleID, HalvesTogether, MutuallyInverse,
       Fixpoints, Has, ID, NoID

\* Adding a label keeps the invariant, makes the label known with an id that
\* no other label maps to when it was new, and leaves the other labels alone.
LEMMA AddNewInv ==
    ASSUME NEW m, MapInv(m), NEW l \in Label, Has(m, l) \/ m.id < MaxID
    PROVE  /\ MapInv(AddNew(m, l))
           /\ Has(AddNew(m, l), l)
           /\ \A k \in Label : k # l => AddNew(m, l).forward[k] = m.forward[k]
           /\ Has(m, l) => AddNew(m, l) = m
           /\ ~Has(m, l) => \A k \in Label :
                 Has(m, k) => Forward(m, k) # Forward(AddNew(m, l), l)
<1>1. CASE Has(m, l)
  BY <1>1 DEF AddNew
<1>2. CASE ~Has(m, l)
  <2> DEFINE n == AddNew(m, l)
             i == m.id + 1
  <2>1. m.id \in Nat /\ i \in ID /\ i # NoID /\ m \in MapValue
    BY <1>2, LabelAssumption DEF MapInv, MapValue, ID, NoID
  <2>2. m.reverse[i] = NoLabel
    BY <2>1 DEF MapInv, MutuallyInverse, ID
  <2>3. /\ n.forward = [m.forward EXCEPT ![l] = [canonical |-> i, literal |-> i]]
        /\ n.reverse = [m.reverse EXCEPT ![i] = l]
        /\ n.id = i
    BY <1>2 DEF AddNew
  <2>4. n \in MapValue
    BY <2>1, <1>2 DEF AddNew, MapValue, TripleID
  <2>5. n.forward[l] = [canonical |-> i, literal |-> i] /\ Has(n, l)
    BY <2>1, <2>3 DEF MapValue, Has
  <2>6. \A k \in Label : k # l => n.forward[k] = m.forward[k]
    BY <2>1, <2>3 DEF MapValue
  <2>7. \A j \in ID : n.reverse[j] = IF j = i THEN l ELSE m.reverse[j]
    BY <2>1, <2>3 DEF MapValue
  <2>8. HalvesTogether(n)
    BY <2>5, <2>6, <2>1 DEF HalvesTogether, Has, MapInv
  <2>9. MutuallyInverse(n)
    <3>1. ASSUME NEW j \in ID, n.reverse[j] # NoLabel
          PROVE  j =< n.id /\ n.forward[n.reverse[j]].literal = j
      <4>1. CASE j = i
        BY <4>1, <2>7, <2>5, <2>3, <2>1 DEF ID
      <4>2. CASE j # i
        <5>1. n.reverse[j] = m.reverse[j] /\ m.reverse[j] # NoLabel /\ m.reverse[j] \in Label
          BY <4>2, <3>1, <2>7, <2>1 DEF MapValue
        <5>2. j =< m.id /\ m.forward[m.reverse[j]].literal = j
          BY <5>1 DEF MapInv, MutuallyInverse
        <5>3. m.reverse[j] # l
          BY <5>2, <1>2 DEF Has, ID, NoID
        <5> QED
          BY <5>1, <5>2, <5>3, <2>6, <2>3, <2>1 DEF ID
      <4> QED BY <4>1, <4>2
    <3>2. ASSUME NEW k \in Label, Has(n, k)
          PROVE  n.reverse[n.forward[k].literal] = k
      <4>1. CASE k = l
        BY <4>1, <2>5, <2>7, <2>1
      <4>2. CASE k # l
        <5>1. Has(m, k) /\ n.forward[k] = m.forward[k]
          BY <4>2, <3>2, <2>6 DEF Has
        <5>2. m.forward[k].literal \in ID /\ m.reverse[m.forward[k].literal] = k
          BY <5>1, <2>1 DEF MapInv, MutuallyInverse, Has, MapValue, TripleID
        <5> QED
          BY <5>1, <5>2, <2>2, <2>7, LabelAssumption
      <4> QED BY <4>1, <4>2
    <3> QED BY <3>1, <3>2 DEF MutuallyInverse
  <2>10. ASSUME NEW k \in Label, Has(m, k)
         PROVE  /\ m.forward[k].canonical \in ID /\ m.forward[k].canonical # i
                /\ m.reverse[m.forward[k].canonical] \in Label \ {l}
    <3>1. m.forward[k].canonical \in ID
      BY <2>10 DEF MapInv, HalvesTogether
    <3>2. m.reverse[m.forward[k].canonical] \in Label
      BY <2>10 DEF MapInv, Fixpoints
    <3>3. m.forward[m.reverse[m.forward[k].canonical]].literal = m.forward[k].canonical
      BY <3>1, <3>2, LabelAssumption DEF MapInv, MutuallyInverse
    <3> QED
      BY <3>1, <3>2, <3>3, <2>2, <1>2, LabelAssumption DEF Has, ID, NoID
  <2>11. Fixpoints(n)
    <3> SUFFICES ASSUME NEW k \in Label, Has(n, k)
                 PROVE  LET r == n.reverse[n.forward[k].canonical]
                        IN  r \in Label /\ n.forward[r].canonical = n.forward[k].canonical
      BY DEF Fixpoints
    <3>1. CASE k = l
      BY <3>1, <2>5, <2>7, <2>1
    <3>2. CASE k # l
      <4>1. Has(m, k) /\ n.forward[k] = m.forward[k]
        BY <3>2, <2>6 DEF Has
      <4>2. n.reverse[m.forward[k].canonical] = m.reverse[m.forward[k].canonical]
        BY <4>1, <2>10, <2>7
      <4>3. m.forward[m.reverse[m.forward[k].canonical]].canonical = m.forward[k].canonical
        BY <4>1 DEF MapInv, Fixpoints
      <4> QED
        BY <4>1, <4>2, <4>3, <2>10, <2>6
    <3> QED BY <3>1, <3>2
  <2>12. \A k \in Label : Has(m, k) => Forward(m, k) # Forward(n, l)
    BY <2>5, <2>10 DEF Forward
  <2> QED
    BY <1>2, <2>4, <2>5, <2>6, <2>8, <2>9, <2>11, <2>12 DEF MapInv
<1> QED BY <1>1, <1>2

-------------------------------------------------------------------------------
\* Both labels of MarkIdentical are known after the two AddNew calls.
LEMMA BothAddedInv ==
    ASSUME NEW m, MapInv(m), NEW same \in Label, NEW old \in Label,
           (Has(m, same) /\ Has(m, old)) \/ m.id + 1 < MaxID
    PROVE  LET b == BothAdded(m, same, old)
           IN  /\ MapInv(AddNew(m, same))
               /\ Has(AddNew(m, same), old) \/ AddNew(m, same).id < MaxID
               /\ MapInv(b)
               /\ Has(b, same) /\ Has(b, old)
<1> DEFINE a == AddNew(m, same)
<1>1. m.id \in Nat
  BY LabelAssumption DEF MapInv, MapValue, ID, NoID
<1>2. Has(m, same) \/ m.id < MaxID
  BY <1>1, LabelAssumption
<1>3. MapInv(a) /\ Has(a, same)
  BY <1>2, AddNewInv
<1>4. Has(a, old) \/ a.id < MaxID
  BY <1>1, LabelAssumption DEF AddNew, Has
<1>5. MapInv(AddNew(a, old)) /\ Has(AddNew(a, old), old)
  BY <1>3, <1>4, AddNewInv
<1>6. Has(AddNew(a, old), same)
  BY <1>3, <1>4, AddNewInv DEF Has
<1> QED
  BY <1>3, <1>4, <1>5, <1>6 DEF BothAdded

\* A label that was known keeps both ids when others are added.
LEMMA KnownKept ==
    ASSUME NEW m, MapInv(m), NEW same \in Label, NEW old \in Label,
           (Has(m, same) /\ Has(m, old)) \/ m.id + 1 < MaxID,
           NEW l \in Label, Has(m, l)
    PROVE  BothAdded(m, same, old).forward[l] = m.forward[l]
<1> DEFINE a == AddNew(m, same)
<1>1. MapInv(a) /\ (Has(a, old) \/ a.id < MaxID)
  BY BothAddedInv
<1>2. Has(m, same) \/ m.id < MaxID
  BY LabelAssumption DEF MapInv, MapValue, ID, NoID
<1>3. ASSUME NEW n, MapInv(n), NEW k \in Label, Has(n, k) \/ n.id < MaxID, Has(n, l)
      PROVE  AddNew(n, k).forward[l] = n.forward[l]
  BY <1>3, AddNewInv
<1>4. a.forward[l] = m.forward[l]
  BY <1>2, <1>3
<1>5. Has(a, l)
  BY <1>4 DEF Has
<1>6. AddNew(a, old).forward[l] = a.forward[l]
  BY <1>1, <1>3, <1>5
<1> QED BY <1>4, <1>6 DEF BothAdded

\* A label is known exactly when it has a canonical id.
LEMMA KnownIffCanonical ==
    ASSUME NEW m, MapInv(m), NEW l \in Label
    PROVE  Has(m, l) <=> Forward(m, l) # NoID
<1>1. CASE Has(m, l)
  <2>1. Forward(m, l) \in ID
    BY <1>1 DEF MapInv, HalvesTogether, Forward
  <2> QED
    BY <1>1, <2>1, LabelAssumption DEF ID, NoID
<1>2. CASE ~Has(m, l)
  BY <1>2 DEF MapInv, HalvesTogether, Forward, NoTripleID
<1> QED BY <1>1, <1>2

\* MarkIdentical redirects exactly the class of the alias: the shortcut for a
\* fresh alias (imap.go:238-244) and the iteration (248-262) touch the same
\* labels, because a fresh id is nobody else's canonical id.
LEMMA TouchedIsClass ==
    ASSUME NEW m, MapInv(m), NEW same \in Label, NEW old \in Label,
           (Has(m, same) /\ Has(m, old)) \/ m.id + 1 < MaxID
    PROVE  LET b == BothAdded(m, same, old)
           IN  Touched(m, same, old) =
                 IF Forward(b, same) = Forward(b, old) THEN {}
                 ELSE {l \in Label : Has(b, l) /\ Forward(b, l) = Forward(b, old)}
<1> DEFINE a == AddNew(m, same)
           b == BothAdded(m, same, old)
<1>1. /\ MapInv(a) /\ MapInv(b) /\ Has(b, same) /\ Has(b, old)
      /\ Has(a, old) \/ a.id < MaxID
  BY BothAddedInv
<1>2. \A l \in Label : Has(b, l) <=> Forward(b, l) # NoID
  BY <1>1, KnownIffCanonical
<1>3. CASE Forward(b, same) = Forward(b, old)
  BY <1>3 DEF Touched
<1>4. CASE Forward(b, same) # Forward(b, old) /\ Has(a, old)
  BY <1>1, <1>2, <1>4 DEF Touched
<1>5. CASE Forward(b, same) # Forward(b, old) /\ ~Has(a, old)
  <2>1. \A l \in Label : l # old => b.forward[l] = a.forward[l]
    BY <1>1, AddNewInv DEF BothAdded
  <2>2. \A l \in Label : Has(a, l) => Forward(a, l) # Forward(b, old)
    BY <1>1, <1>5, AddNewInv DEF BothAdded
  <2>3. \A l \in Label : Has(b, l) /\ Forward(b, l) = Forward(b, old) => l = old
    BY <2>1, <2>2 DEF Has, Forward
  <2> QED
    BY <1>1, <1>5, <2>3 DEF Touched
<1> QED BY <1>3, <1>4, <1>5

\* The value MarkIdentical leaves behind: the class of old has moved under the
\* canonical id of same, and nothing else differs from the map with both added.
LEMMA MarkIdenticalMoves ==
    ASSUME NEW m, MapInv(m), NEW same \in Label, NEW old \in Label,
           (Has(m, same) /\ Has(m, old)) \/ m.id + 1 < MaxID
    PROVE  LET b == BothAdded(m, same, old)
               n == MarkIdentical(m, same, old)
           IN  /\ n \in MapValue
               /\ n.reverse = b.reverse /\ n.id = b.id
               /\ \A l \in Label :
                     /\ n.forward[l].literal = b.forward[l].literal
                     /\ Has(n, l) <=> Has(b, l)
                     /\ Forward(n, l) = IF Has(b, l) /\ Forward(b, l) = Forward(b, old)
                                        THEN Forward(b, same) ELSE Forward(b, l)
<1> DEFINE b == BothAdded(m, same, old)
           n == MarkIdentical(m, same, old)
           T == Touched(m, same, old)
<1>1. MapInv(b) /\ Has(b, same) /\ Has(b, old)
  BY BothAddedInv
<1>2. T = IF Forward(b, same) = Forward(b, old) THEN {}
          ELSE {l \in Label : Has(b, l) /\ Forward(b, l) = Forward(b, old)}
  BY TouchedIsClass
<1>3. n = Redirect(b, T, Forward(b, same))
  BY DEF MarkIdentical
<1>4. /\ n.reverse = b.reverse /\ n.id = b.id
      /\ n.forward = [l \in Label |-> IF l \in T
                        THEN [canonical |-> Forward(b, same), literal |-> b.forward[l].literal]
                        ELSE b.forward[l]]
      /\ n = [forward |-> n.forward, reverse |-> b.reverse, id |-> b.id]
  BY <1>3, <1>1 DEF Redirect, MapInv, MapValue
<1>5. Forward(b, same) \in ID
  BY <1>1 DEF MapInv, HalvesTogether, Forward
<1>6. n \in MapValue
  BY <1>1, <1>4, <1>5 DEF MapInv, MapValue, TripleID
<1>7. ASSUME NEW l \in Label
      PROVE  /\ n.forward[l].literal = b.forward[l].literal
             /\ Has(n, l) <=> Has(b, l)
             /\ Forward(n, l) = IF Has(b, l) /\ Forward(b, l) = Forward(b, old)
                                THEN Forward(b, same) ELSE Forward(b, l)
  <2>1. CASE l \in T
    <3>1. n.forward[l] = [canonical |-> Forward(b, same), literal |-> b.forward[l].literal]
      BY <1>4, <2>1
    <3>2. n.forward[l].literal = b.forward[l].literal /\ Forward(n, l) = Forward(b, same)
      BY <3>1 DEF Forward
    <3> QED
      BY <1>2, <2>1, <3>2 DEF Has
  <2>2. CASE l \notin T
    <3>1. n.forward[l] = b.forward[l]
      BY <1>4, <2>2
    <3> QED
      BY <1>2, <2>2, <3>1 DEF Has, Forward
  <2> QED BY <2>1, <2>2
<1> QED BY <1>4, <1>6, <1>7

\* Identifying two labels keeps the invariant of the map.
LEMMA MarkIdenticalInv ==
    ASSUME NEW m, MapInv(m), NEW same \in Label, NEW old \in Label,
           (Has(m, same) /\ Has(m, old)) \/ m.id + 1 < MaxID
    PROVE  MapInv(MarkIdentical(m, same, old))
<1> DEFINE b == BothAdded(m, same, old)
           n == MarkIdentical(m, same, old)
<1>1. MapInv(b) /\ Has(b, same) /\ Has(b, old)
  BY BothAddedInv
<1>2. /\ n \in MapValue
      /\ n.reverse = b.reverse /\ n.id = b.id
      /\ \A l \in Label : /\ n.forward[l].literal = b.forward[l].literal
                          /\ Has(n, l) <=> Has(b, l)
                          /\ Forward(n, l) = IF Has(b, l) /\ Forward(b, l) = Forward(b, old)
                                             THEN Forward(b, same) ELSE Forward(b, l)
  BY MarkIdenticalMoves
<1>3. HalvesTogether(n)
  <2> SUFFICES ASSUME NEW l \in Label
               PROVE IF Has(n, l) THEN n.forward[l].canonical \in ID
                                  ELSE n.forward[l] = NoTripleID
    BY DEF HalvesTogether
  <2>1. CASE Has(n, l)
    BY <2>1, <1>1, <1>2 DEF MapInv, HalvesTogether, Forward
  <2>2. CASE ~Has(n, l)
    <3>1. b.forward[l] = NoTripleID
      BY <2>2, <1>1, <1>2 DEF MapInv, HalvesTogether
    <3>2. n.forward[l].canonical = NoID /\ n.forward[l].literal = NoID
      BY <3>1, <2>2, <1>2 DEF NoTripleID, Forward
    <3> QED
      BY <2>2, <3>2, <1>2 DEF MapValue, TripleID, NoTripleID
  <2> QED BY <2>1, <2>2
<1>4. MutuallyInverse(n)
  BY <1>1, <1>2, LabelAssumption DEF MapInv, MutuallyInverse, MapValue
<1>5. Fixpoints(n)
  <2> SUFFICES ASSUME NEW l \in Label, Has(n, l)
               PROVE  /\ n.reverse[Forward(n, l)] \in Label
                      /\ Forward(n, n.reverse[Forward(n, l)]) = Forward(n, l)
    BY DEF Fixpoints, Forward
  <2>1. PICK k \in Label : /\ Has(b, k) /\ Forward(n, l) = Forward(b, k)
                           /\ Forward(b, k) = Forward(b, old) => Forward(b, same) = Forward(b, old)
    BY <1>1, <1>2
  <2>2. /\ b.reverse[Forward(b, k)] \in Label
        /\ Forward(b, b.reverse[Forward(b, k)]) = Forward(b, k)
    BY <1>1, <2>1 DEF MapInv, Fixpoints, Forward
  <2> QED
    BY <1>2, <2>1, <2>2
<1> QED BY <1>2, <1>3, <1>4, <1>5 DEF MapInv

\* An id that is given to no label disturbs nothing.
LEMMA NextIDInv ==
    ASSUME NEW m, MapInv(m), m.id < MaxID
    PROVE  MapInv(NextID(m)) /\ NextID(m).id = m.id + 1
<1>1. m.id + 1 \in ID /\ m.id \in {NoID} \union ID
  BY LabelAssumption DEF MapInv, MapValue, ID, NoID
<1>2. NextID(m) \in MapValue
  BY <1>1 DEF NextID, MapInv, MapValue
<1>3. MutuallyInverse(NextID(m))
  BY <1>1, LabelAssumption DEF MapInv, MutuallyInverse, NextID, Has, ID, NoID
<1>4. HalvesTogether(NextID(m)) /\ Fixpoints(NextID(m))
  BY DEF MapInv, HalvesTogether, Fixpoints, NextID, Has
<1> QED BY <1>2, <1>3, <1>4 DEF MapInv, NextID

-------------------------------------------------------------------------------
(* How the label map grows *)

\* Nothing that was known is forgotten, and what is new has new ids.
Grows(m, n) ==
    /\ m.id =< n.id
    /\ \A l \in Label : Has(m, l) => n.forward[l] = m.forward[l]
    /\ \A i \in ID : i =< m.id => n.reverse[i] = m.reverse[i]

\* The ids of a label that is known, and the way back.
LEMMA KnownIDs ==
  ASSUME NEW m, MapInv(m), NEW l \in Label, Has(m, l)
  PROVE  /\ m.forward[l] \in TripleID
         /\ m.forward[l].literal \in ID /\ m.forward[l].canonical \in ID
         /\ m.forward[l].literal =< m.id /\ m.forward[l].canonical =< m.id
         /\ m.reverse[m.forward[l].literal] = l /\ m.reverse[m.forward[l].canonical] \in Label
         /\ m.reverse[m.forward[l].canonical] # NoLabel
<1>1. m.forward[l] \in TripleID /\ m.forward[l].literal \in ID
  BY DEF MapInv, MapValue, TripleID, Has
<1>2. m.forward[l].canonical \in ID BY DEF MapInv, HalvesTogether
<1>3. m.reverse[m.forward[l].literal] = l BY DEF MapInv, MutuallyInverse
<1>4. m.reverse[m.forward[l].canonical] \in Label BY DEF MapInv, Fixpoints
<1> QED BY <1>1, <1>2, <1>3, <1>4, LabelAssumption DEF MapInv, MutuallyInverse

\* The counter is a number that fits.
LEMMA MapIDs ==
  ASSUME NEW m, MapInv(m)
  PROVE  m \in MapValue /\ m.id \in Nat /\ m.id =< MaxID /\ MaxID \in Nat
BY LabelAssumption DEF MapInv, MapValue, ID, NoID

\* An id above the counter belongs to no label.
LEMMA UnusedID ==
  ASSUME NEW m, MapInv(m), NEW i \in ID, i > m.id
  PROVE  m.reverse[i] = NoLabel
BY MapIDs DEF MapInv, MutuallyInverse, ID

\* AddNew, as growth: one label more at most.
LEMMA AddNewGrows ==
  ASSUME NEW m, MapInv(m), NEW l \in Label, Has(m, l) \/ m.id < MaxID
  PROVE  LET n == AddNew(m, l)
         IN  /\ MapInv(n) /\ Has(n, l) /\ Grows(m, n) /\ n.id =< m.id + 1
             /\ ~Has(m, l) => n.forward[l].canonical = n.forward[l].literal
             /\ \A k \in Label : Has(n, k) => Has(m, k) \/ k = l
<1> DEFINE n == AddNew(m, l)
<1>1. MapInv(n) /\ Has(n, l) BY AddNewInv
<1>2. \A k \in Label : k # l => n.forward[k] = m.forward[k] BY AddNewInv
<1>3. \A k \in Label : Has(m, k) => n.forward[k] = m.forward[k] BY <1>2, AddNewInv
<1>4. m.id \in Nat /\ m.reverse \in [ID -> Label \union {NoLabel}]
      /\ m.forward \in [Label -> TripleID]
  BY MapIDs DEF MapValue
<1>5. n.id \in {m.id, m.id + 1} BY DEF AddNew
<1>6. \A i \in ID : i =< m.id => n.reverse[i] = m.reverse[i]
  BY <1>4 DEF AddNew, ID
<1>7. ~Has(m, l) => n.forward[l].canonical = n.forward[l].literal
  BY <1>4 DEF AddNew
<1> QED BY <1>1, <1>2, <1>3, <1>4, <1>5, <1>6, <1>7 DEF Grows, Has

\* Growth adds up.
LEMMA GrowsFurther ==
  ASSUME NEW m, NEW n, NEW k, MapInv(m), MapInv(n), MapInv(k), Grows(m, n), Grows(n, k)
  PROVE  Grows(m, k) /\ \A l \in Label : Has(m, l) => Has(n, l) /\ Has(k, l)
<1>1. m.id \in Nat /\ n.id \in Nat /\ k.id \in Nat BY MapIDs
<1>2. \A i \in ID : i \in Nat BY DEF ID
<1>3. \A l \in Label : Has(m, l) => Has(n, l) /\ n.forward[l] = m.forward[l] /\ Has(k, l)
  BY DEF Grows, Has
<1> QED BY <1>1, <1>2, <1>3 DEF Grows

\* A map that stays the same has grown by nothing.
LEMMA GrowsNot == ASSUME NEW m, MapInv(m) PROVE Grows(m, m)
BY MapIDs DEF Grows

\* The next id is nobody's.
LEMMA NextIDGrows ==
  ASSUME NEW m, MapInv(m), m.id < MaxID
  PROVE  LET n == NextID(m)
         IN  MapInv(n) /\ Grows(m, n) /\ n.id = m.id + 1 /\ n.id \in ID /\ n.reverse[n.id] = NoLabel
<1>1. MapInv(NextID(m)) /\ NextID(m).id = m.id + 1 BY NextIDInv
<1>2. m.id + 1 \in ID /\ m.id + 1 > m.id BY MapIDs DEF ID
<1>3. NextID(m).reverse = m.reverse /\ NextID(m).forward = m.forward BY DEF NextID
<1>4. m.reverse[m.id + 1] = NoLabel BY <1>2, UnusedID
<1> QED BY <1>1, <1>2, <1>3, <1>4, MapIDs DEF Grows

\* Two labels are added.
LEMMA AddTwoGrows ==
  ASSUME NEW m, MapInv(m), NEW k \in Label, NEW l \in Label,
         m.id + 2 =< MaxID \/ (Has(m, k) /\ Has(m, l))
  PROVE  LET n == AddNew(AddNew(m, k), l)
         IN  /\ MapInv(n) /\ Has(n, k) /\ Has(n, l) /\ Grows(m, n) /\ n.id =< m.id + 2
<1> DEFINE a == AddNew(m, k)
<1>1. Has(m, k) \/ m.id < MaxID BY MapIDs
<1>2. MapInv(a) /\ Has(a, k) /\ Grows(m, a) /\ a.id =< m.id + 1 BY <1>1, AddNewGrows
<1>3. Has(a, l) \/ a.id < MaxID BY <1>2, MapIDs DEF Grows, Has
<1>4. MapInv(AddNew(a, l)) /\ Has(AddNew(a, l), l) /\ Grows(a, AddNew(a, l))
      /\ AddNew(a, l).id =< a.id + 1
  BY <1>2, <1>3, AddNewGrows
<1>5. Has(AddNew(a, l), k) BY <1>2, <1>4 DEF Grows, Has
<1> QED BY <1>2, <1>4, <1>5, GrowsFurther, MapIDs

\* Three labels are added: predicate, subject and object.
LEMMA AddThreeGrows ==
  ASSUME NEW m, MapInv(m), NEW j \in Label, NEW k \in Label, NEW l \in Label,
         m.id + 3 =< MaxID \/ (Has(m, j) /\ Has(m, k) /\ Has(m, l))
  PROVE  LET n == AddNew(AddNew(AddNew(m, j), k), l)
         IN  /\ MapInv(n) /\ Has(n, j) /\ Has(n, k) /\ Has(n, l) /\ Grows(m, n)
<1> DEFINE b == AddNew(AddNew(m, j), k)
<1>1. m.id + 2 =< MaxID \/ (Has(m, j) /\ Has(m, k)) BY MapIDs
<1>2. MapInv(b) /\ Has(b, j) /\ Has(b, k) /\ Grows(m, b) /\ b.id =< m.id + 2
  BY <1>1, AddTwoGrows
<1>3. Has(b, l) \/ b.id < MaxID BY <1>2, MapIDs DEF Grows, Has
<1>4. MapInv(AddNew(b, l)) /\ Has(AddNew(b, l), l) /\ Grows(b, AddNew(b, l))
  BY <1>2, <1>3, AddNewGrows
<1>5. Has(AddNew(b, l), j) /\ Has(AddNew(b, l), k) BY <1>2, <1>4 DEF Grows, Has
<1> QED BY <1>2, <1>4, <1>5, GrowsFurther

\* A predicate, the id of a datum, and a subject.
LEMMA AddDatumGrows ==
  ASSUME NEW m, MapInv(m), NEW p \in Label, NEW s \in Label, m.id + 3 =< MaxID
  PROVE  LET d == NextID(AddNew(m, p))
             n == AddNew(d, s)
         IN  /\ MapInv(n) /\ Has(n, p) /\ Has(n, s) /\ Grows(m, n)
             /\ d.id \in ID /\ d.id > m.id /\ d.id =< n.id /\ n.reverse[d.id] = NoLabel
<1> DEFINE a == AddNew(m, p)
           d == NextID(a)
           n == AddNew(d, s)
<1>1. m.id < MaxID /\ m.id \in Nat BY MapIDs
<1>2. MapInv(a) /\ Has(a, p) /\ Grows(m, a) /\ a.id =< m.id + 1 BY <1>1, AddNewGrows
<1>3. a.id < MaxID /\ a.id \in Nat /\ m.id =< a.id BY <1>1, <1>2, MapIDs DEF Grows
<1>4. MapInv(d) /\ Grows(a, d) /\ d.id = a.id + 1 /\ d.id \in ID /\ d.reverse[d.id] = NoLabel
  BY <1>2, <1>3, NextIDGrows
<1>5. d.id < MaxID BY <1>1, <1>2, <1>4, <1>3, MapIDs
<1>6. MapInv(n) /\ Has(n, s) /\ Grows(d, n) BY <1>4, <1>5, AddNewGrows
<1>7. n.reverse[d.id] = NoLabel /\ d.id =< n.id BY <1>4, <1>6, <1>3 DEF Grows
<1>8. Has(n, p) BY <1>2, <1>4, <1>6 DEF Grows, Has
<1>9. Grows(m, d) BY <1>2, <1>4, GrowsFurther
<1>10. Grows(m, n) BY <1>4, <1>6, <1>9, GrowsFurther
<1>11. d.id > m.id BY <1>1, <1>3, <1>4
<1> HIDE DEF d, n
<1> QED BY <1>4, <1>6, <1>7, <1>8, <1>10, <1>11 DEF d, n
===============================================================================
