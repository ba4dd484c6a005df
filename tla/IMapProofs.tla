------------------------------ MODULE IMapProofs ------------------------------
(***************************************************************************)
(* Proofs about IMap, for any set of labels and any number of ids.         *)
(***************************************************************************)
EXTENDS IMap, LabelMapProofs

\* After a failed call only half of MutuallyInverse is left.
ReverseSound ==
    \A i \in ID : reverse[i] # NoLabel => forward[reverse[i]].literal = i

IInv == /\ TypeOK
        /\ ReverseSound
        /\ ~failed => MapInv(mp)

-------------------------------------------------------------------------------\* Become installs the value it is given.
LEMMA BecomeValue ==
    ASSUME NEW m \in MapValue, Become(m)
    PROVE  mp' = m
BY DEF Become, mp, MapValue

\* An entry of reverse is enough for the part of the invariant that survives
\* a failure.
LEMMA InverseIsSound == MapInv(mp) => ReverseSound
BY DEF MapInv, MutuallyInverse, ReverseSound, mp

\* The zero IMap satisfies the invariant.
LEMMA InitInv == Init => IInv
<1> SUFFICES ASSUME Init PROVE IInv
  OBVIOUS
<1>1. mp = EmptyMap
  BY DEF Init, mp, EmptyMap
<1>2. MapInv(mp)
  BY <1>1, EmptyMapInv
<1> QED
  BY <1>2, InverseIsSound DEF Init, IInv, TypeOK, MapInv

\* Every call, and every call that fails half-way, keeps the invariant.
LEMMA NextInv == IInv /\ [Next]_vars => IInv'
<1> SUFFICES ASSUME IInv, [Next]_vars PROVE IInv'
  OBVIOUS
<1> USE DEF IInv
<1>0. TypeOK /\ mp \in MapValue
  BY DEF TypeOK
<1>a. ASSUME NEW m, MapInv(m), Become(m), finalized' \in BOOLEAN, open' \in BOOLEAN,
             failed' \in BOOLEAN, identified' \subseteq SUBSET Label
      PROVE  IInv'
  <2>1. mp' = m
    BY <1>a, BecomeValue DEF MapInv
  <2>2. MapInv(mp)'
    BY <1>a, <2>1 DEF MapInv, HalvesTogether, MutuallyInverse, Fixpoints, Has, MapValue
  <2> QED
    BY <1>a, <2>1, <2>2 DEF TypeOK, MapInv, ReverseSound, MutuallyInverse, mp
<1>b. CanMutate => MapInv(mp)
  BY DEF CanMutate
<1>1. CASE Reset
  BY <1>1, <1>a, EmptyMapInv DEF Reset
<1>2. CASE ResetFails
  <2>1. mp' \in MapValue /\ \A i \in ID : reverse'[i] = NoLabel
    BY <1>2, <1>0, EmptyMapInv DEF ResetFails, mp, EmptyMap, MapInv, MapValue
  <2> QED
    BY <1>2, <2>1 DEF ResetFails, TypeOK, ReverseSound
<1>3. CASE Close
  <2>1. /\ mp' \in MapValue
        /\ \A i \in ID : reverse'[i] = NoLabel
        /\ \A l \in Label : forward'[l] = NoTripleID
    BY <1>3, <1>0, EmptyMapInv DEF Close, mp, EmptyMap, MapInv, MapValue
  <2>2. MapInv(mp)'
    BY <2>1 DEF MapInv, mp, HalvesTogether, MutuallyInverse, Fixpoints, Has, NoTripleID
  <2> QED
    BY <1>3, <2>1, <2>2 DEF Close, TypeOK, ReverseSound
<1>4. CASE NextDataID
  <2>1. MapInv(mp) /\ mp.id < MaxID
    BY <1>4 DEF NextDataID, mp
  <2> QED
    BY <1>4, <1>a, <2>1, NextIDInv DEF NextDataID, TypeOK
<1>5. CASE Finalize
  <2>1. mp' = mp
    BY <1>5 DEF Finalize, mp
  <2>2. MapInv(mp) /\ Become(mp)
    BY <1>5 DEF Finalize, Become, mp
  <2> QED
    BY <1>5, <1>a, <2>2 DEF Finalize, TypeOK
<1>6. ASSUME NEW l \in Label, Add(l) PROVE IInv'
  <2>1. MapInv(mp) /\ (Has(mp, l) \/ mp.id < MaxID)
    BY <1>6, <1>b DEF Add, mp
  <2>2. MapInv(AddNew(mp, l))
    BY <2>1, AddNewInv
  <2> QED
    BY <1>6, <1>a, <2>2 DEF Add, TypeOK
<1>7. ASSUME NEW l \in Label, AddFails(l) PROVE IInv'
  <2>1. MapInv(mp) /\ ~Has(mp, l) /\ mp.id < MaxID /\ mp.id = id
    BY <1>7, <1>b DEF AddFails, mp
  <2> DEFINE n == AddNew(mp, l)
  <2>2. MapInv(n) /\ n.id = id + 1
    BY <2>1, AddNewInv DEF AddNew
  <2>3. mp' \in MapValue
    BY <1>7, <2>1, <2>2 DEF AddFails, MapInv, MapValue, mp
  <2>4. \A i \in ID : reverse[i] # NoLabel => forward'[reverse[i]].literal = i
    <3> SUFFICES ASSUME NEW i \in ID, reverse[i] # NoLabel
                 PROVE  forward'[reverse[i]].literal = i
      OBVIOUS
    <3>1. reverse[i] \in Label /\ forward[reverse[i]].literal = i
      BY <1>0 DEF ReverseSound, mp, MapValue
    <3>2. reverse[i] # l
      BY <2>1, <3>1, LabelAssumption DEF Has, mp, ID, NoID
    <3>3. n.forward[reverse[i]] = forward[reverse[i]]
      BY <2>1, <3>1, <3>2, AddNewInv DEF mp
    <3> QED
      BY <1>7, <3>1, <3>3 DEF AddFails
  <2> QED
    BY <1>7, <2>3, <2>4 DEF AddFails, TypeOK, ReverseSound
<1>8. ASSUME NEW same \in Label, NEW old \in Label, Identify(same, old) PROVE IInv'
  <2>1. MapInv(mp) /\ ((Has(mp, same) /\ Has(mp, old)) \/ mp.id + 1 < MaxID)
    BY <1>8, <1>b DEF Identify, mp
  <2>2. MapInv(MarkIdentical(mp, same, old))
    BY <2>1, MarkIdenticalInv
  <2> QED
    BY <1>8, <1>a, <2>2 DEF Identify, TypeOK
<1>9. ASSUME NEW same \in Label, NEW old \in Label, IdentifyFails(same, old) PROVE IInv'
  <2> DEFINE b == BothAdded(mp, same, old)
  <2>1. MapInv(mp) /\ ((Has(mp, same) /\ Has(mp, old)) \/ mp.id + 1 < MaxID)
    BY <1>9, <1>b DEF IdentifyFails, mp
  <2>2. MapInv(b) /\ Has(b, same)
    BY <2>1, BothAddedInv
  <2>3. PICK ls \in SUBSET Touched(mp, same, old) : Become(Redirect(b, ls, Forward(b, same)))
    BY <1>9 DEF IdentifyFails
  <2>4. Forward(b, same) \in ID
    BY <2>2 DEF MapInv, HalvesTogether, Forward
  <2>5. Redirect(b, ls, Forward(b, same)) \in MapValue
    BY <2>2, <2>4 DEF Redirect, MapInv, MapValue, TripleID
  <2>6. mp' = Redirect(b, ls, Forward(b, same))
    BY <2>3, <2>5, BecomeValue
  <2>7. reverse' = b.reverse /\ \A l \in Label : forward'[l].literal = b.forward[l].literal
    BY <2>6 DEF Redirect, mp
  <2> QED
    BY <1>9, <2>2, <2>5, <2>6, <2>7 DEF IdentifyFails, TypeOK, ReverseSound, MapInv, MutuallyInverse, MapValue
<1>10. CASE UNCHANGED vars
  <2>1. mp' = mp
    BY <1>10 DEF vars, mp
  <2>2. ~failed => MapInv(mp) /\ Become(mp)
    BY <1>10 DEF vars, Become, mp
  <2> QED
    BY <1>10, <1>a, <2>1, <2>2 DEF vars, TypeOK, ReverseSound
<1> QED
  BY <1>1, <1>2, <1>3, <1>4, <1>5, <1>6, <1>7, <1>8, <1>9, <1>10 DEF Next

\* The inductive invariant holds in every state an IMap reaches.
THEOREM InductiveInvariant == Spec => []IInv
BY InitInv, NextInv, PTL DEF Spec

\* The ids, labels and flags keep their types.
THEOREM TypeCorrect == Spec => []TypeOK
<1>1. IInv => TypeOK
  BY DEF IInv
<1> QED BY <1>1, InductiveInvariant, PTL

\* forward and reverse stay inverse of each other on literal ids.
THEOREM LiteralsResolve == Spec => []ReverseInvertsLiteral
<1>1. IInv => ReverseInvertsLiteral
  <2> SUFFICES ASSUME IInv PROVE ReverseInvertsLiteral
    OBVIOUS
  <2>1. ASSUME ~failed, NEW l \in Label, Has(mp, l)
        PROVE  Reverse(mp, forward[l].literal) = l
    <3>1. mp.forward[l].literal \in ID
      BY <2>1 DEF IInv, MapInv, MapValue, TripleID, Has
    <3> QED
      BY <2>1, <3>1 DEF IInv, MapInv, MutuallyInverse, Reverse, mp
  <2> QED
    BY <2>1 DEF IInv, ReverseSound, ReverseInvertsLiteral
<1> QED BY <1>1, InductiveInvariant, PTL

\* Every canonical id leads, in one lookup, to a label that represents itself.
THEOREM CanonicalsAreFixpoints == Spec => []CanonicalIsFixpoint
<1>1. IInv => CanonicalIsFixpoint
  <2> SUFFICES ASSUME IInv, ~failed, NEW l \in Label, Has(mp, l)
               PROVE  LET r == Representative(mp, l)
                      IN  /\ r \in Label
                          /\ forward[r].literal = Forward(mp, l)
                          /\ forward[r].canonical = Forward(mp, l)
    BY DEF CanonicalIsFixpoint
  <2>1. MapInv(mp) /\ Forward(mp, l) \in ID
    BY DEF IInv, MapInv, HalvesTogether, Forward
  <2>2. Representative(mp, l) = reverse[Forward(mp, l)]
    BY <2>1 DEF Representative, Reverse, mp
  <2>3. reverse[Forward(mp, l)] \in Label
    BY <2>1 DEF MapInv, Fixpoints, Forward, mp
  <2> QED
    BY <2>1, <2>2, <2>3, LabelAssumption DEF MapInv, Fixpoints, MutuallyInverse, Forward, mp
<1> QED BY <1>1, InductiveInvariant, PTL

-------------------------------------------------------------------------------
\* The literal id of a label that is known is never replaced.
LEMMA LiteralKept ==
    ASSUME IInv, [Next]_vars, open', ~Reset, NEW l \in Label, Has(mp, l)
    PROVE  forward'[l].literal = forward[l].literal
<1>b. CanMutate => MapInv(mp)
  BY DEF CanMutate, IInv
<1>1. CASE NextDataID \/ Finalize \/ UNCHANGED vars
  BY <1>1 DEF NextDataID, Finalize, vars, Become, NextID, mp
<1>2. ASSUME NEW k \in Label, Add(k) \/ AddFails(k) PROVE forward'[l].literal = forward[l].literal
  <2>1. /\ MapInv(mp) /\ (Has(mp, k) \/ mp.id < MaxID)
        /\ forward' \in {forward, AddNew(mp, k).forward}
    BY <1>2, <1>b DEF Add, AddFails, Become, mp
  <2>2. AddNew(mp, k).forward[l] = mp.forward[l]
    BY <2>1, AddNewInv
  <2> QED
    BY <2>1, <2>2 DEF mp
<1>3. ASSUME NEW same \in Label, NEW old \in Label, Identify(same, old) \/ IdentifyFails(same, old)
      PROVE  forward'[l].literal = forward[l].literal
  <2> DEFINE b == BothAdded(mp, same, old)
  <2>1. MapInv(mp) /\ ((Has(mp, same) /\ Has(mp, old)) \/ mp.id + 1 < MaxID)
    BY <1>3, <1>b DEF Identify, IdentifyFails, mp
  <2>2. b.forward[l] = mp.forward[l]
    BY <2>1, KnownKept
  <2>3. forward'[l].literal = b.forward[l].literal
    <3>1. CASE Identify(same, old)
      BY <3>1, <2>1, MarkIdenticalMoves DEF Identify, Become
    <3>2. CASE IdentifyFails(same, old)
      <4>1. PICK ls \in SUBSET Touched(mp, same, old) : Become(Redirect(b, ls, Forward(b, same)))
        BY <3>2 DEF IdentifyFails
      <4> QED
        BY <4>1 DEF Become, Redirect
    <3> QED BY <1>3, <3>1, <3>2
  <2> QED
    BY <2>2, <2>3 DEF mp
<1>4. ~ResetFails /\ ~Close
  BY DEF ResetFails, Close
<1> QED BY <1>1, <1>2, <1>3, <1>4 DEF Next

\* The literal id of a known label never changes in the forward storage (what
\* the reverse storage says of it is LiteralsResolve).
THEOREM LiteralIDsStay == Spec => LiteralIsStable
<1>1. IInv /\ [Next]_vars => [(open /\ open' /\ ~Reset) =>
         \A l \in Label : Has(mp, l) => forward'[l].literal = forward[l].literal]_vars
  BY LiteralKept
<1> QED BY <1>1, InductiveInvariant, PTL DEF Spec, LiteralIsStable

-------------------------------------------------------------------------------
\* A label that is added is equivalent to nothing but itself.
LEMMA AddNewClosure ==
    ASSUME NEW m, MapInv(m), NEW l \in Label, Has(m, l) \/ m.id < MaxID,
           NEW marks \in SUBSET SUBSET Label, IsClosureOf(m, marks)
    PROVE  IsClosureOf(AddNew(m, l), marks)
<1> DEFINE n == AddNew(m, l)
<1>1. CASE Has(m, l)
  BY <1>1, AddNewInv
<1>2. CASE ~Has(m, l)
  <2>1. \A k \in Label : k # l => n.forward[k] = m.forward[k]
    BY AddNewInv
  <2>2. \A k \in Label : Has(m, k) => Forward(m, k) # Forward(n, l)
    BY <1>2, AddNewInv
  <2>3. \A a, b \in Label : SameID(m, a, b) => SameID(n, a, b)
    BY <1>2, <2>1 DEF SameID, Has, Forward
  <2>4. \A a, b \in Label : SameID(n, a, b) => a = b \/ SameID(m, a, b)
    BY <2>1, <2>2 DEF SameID, Has, Forward
  <2>5. \A s \in marks : \A a, b \in s : SameID(n, a, b)
    BY <2>3 DEF IsClosureOf
  <2>6. ASSUME NEW E \in Equivalences, Relates(E, marks), NEW a \in Label, NEW b \in Label,
               SameID(n, a, b)
        PROVE  <<a, b>> \in E
    BY <2>4, <2>6 DEF IsClosureOf, Equivalences, IsEquivalence
  <2> QED BY <2>5, <2>6 DEF IsClosureOf
<1> QED BY <1>1, <1>2

\* Moving the class of old under same joins the two classes and no others.
LEMMA MarkIdenticalClosure ==
    ASSUME NEW m, MapInv(m), NEW same \in Label, NEW old \in Label,
           (Has(m, same) /\ Has(m, old)) \/ m.id + 1 < MaxID,
           NEW marks \in SUBSET SUBSET Label, IsClosureOf(m, marks)
    PROVE  IsClosureOf(MarkIdentical(m, same, old), marks \union {{same, old}})
<1> DEFINE b == BothAdded(m, same, old)
           n == MarkIdentical(m, same, old)
<1>1. /\ MapInv(AddNew(m, same))
      /\ Has(AddNew(m, same), old) \/ AddNew(m, same).id < MaxID
      /\ Has(b, same) /\ Has(b, old)
  BY BothAddedInv
<1>2. IsClosureOf(b, marks)
  <2>1. Has(m, same) \/ m.id < MaxID
    BY LabelAssumption DEF MapInv, MapValue, ID, NoID
  <2>2. IsClosureOf(AddNew(m, same), marks)
    BY <2>1, AddNewClosure
  <2> QED
    BY <1>1, <2>2, AddNewClosure DEF BothAdded
<1>3. \A l \in Label :
         /\ Has(n, l) <=> Has(b, l)
         /\ Forward(n, l) = IF Has(b, l) /\ Forward(b, l) = Forward(b, old)
                            THEN Forward(b, same) ELSE Forward(b, l)
  BY MarkIdenticalMoves
<1>4. \A x, y \in Label : SameID(b, x, y) => SameID(n, x, y)
  BY <1>3 DEF SameID
<1>5. SameID(n, same, old) /\ SameID(n, old, same) /\ SameID(n, same, same) /\ SameID(n, old, old)
  BY <1>1, <1>3 DEF SameID
<1>6. \A s \in marks \union {{same, old}} : \A x, y \in s : SameID(n, x, y)
  BY <1>2, <1>4, <1>5 DEF IsClosureOf
<1>7. ASSUME NEW E \in Equivalences, Relates(E, marks \union {{same, old}}),
             NEW x \in Label, NEW y \in Label, SameID(n, x, y)
      PROVE  <<x, y>> \in E
  <2>1. Relates(E, marks) /\ <<same, old>> \in E
    <3>1. \A s \in marks \union {{same, old}} : \A u, v \in s : <<u, v>> \in E
      BY <1>7 DEF Relates
    <3>2. {same, old} \in marks \union {{same, old}}
      OBVIOUS
    <3>3. <<same, old>> \in E
      BY <3>1, <3>2
    <3>4. \A s \in marks : \A u, v \in s : <<u, v>> \in E
      BY <3>1
    <3> QED
      BY <3>3, <3>4 DEF Relates
  <2>2. \A u, v \in Label : SameID(b, u, v) => <<u, v>> \in E
    BY <1>2, <2>1 DEF IsClosureOf
  <2>3. IsEquivalence(E)
    BY DEF Equivalences
  <2>4. CASE SameID(b, x, y)
    BY <2>2, <2>4
  <2>5. CASE SameID(b, x, old) /\ SameID(b, same, y)
    BY <2>1, <2>2, <2>3, <2>5 DEF IsEquivalence
  <2>6. CASE SameID(b, x, same) /\ SameID(b, old, y)
    <3>1. <<x, same>> \in E /\ <<old, y>> \in E /\ <<same, old>> \in E
      BY <2>1, <2>2, <2>6
    <3> QED
      BY <2>3, <3>1 DEF IsEquivalence
  <2> QED
    BY <1>1, <1>3, <1>7, <2>4, <2>5, <2>6 DEF SameID
<1> QED BY <1>6, <1>7 DEF IsClosureOf

\* Every step keeps the classes and the marked pairs in agreement.
LEMMA ClosureStep ==
    IInv /\ IdentityIsClosure /\ [Next]_vars => IdentityIsClosure'
<1> SUFFICES ASSUME IInv, IdentityIsClosure, [Next]_vars PROVE IdentityIsClosure'
  OBVIOUS
<1>1. identified \in SUBSET SUBSET Label /\ mp \in MapValue
  BY DEF IInv, TypeOK
<1>a. ASSUME NEW m \in MapValue, Become(m), IsClosureOf(m, identified')
      PROVE  IdentityIsClosure'
  <2>1. mp' = m
    BY <1>a, BecomeValue
  <2> QED
    BY <1>a, <2>1 DEF IdentityIsClosure, IsClosureOf, SameID, Has, Forward
<1>b. CanMutate => MapInv(mp) /\ IsClosureOf(mp, identified)
  BY DEF CanMutate, IInv, IdentityIsClosure
<1>c. ASSUME \A l \in Label : forward'[l] = NoTripleID, identified' = {}
      PROVE  IdentityIsClosure'
  <2>1. \A a, b \in Label : ~SameID(mp', a, b)
    BY <1>c DEF SameID, Has, mp, NoTripleID
  <2> QED
    BY <1>c, <2>1 DEF IdentityIsClosure, IsClosureOf, SameID, Has, Forward
<1>2. CASE Reset \/ Close
  BY <1>2, <1>c DEF Reset, Close, Become, EmptyMap
<1>3. CASE failed' = TRUE
  BY <1>3 DEF IdentityIsClosure
<1>4. CASE NextDataID
  <2>1. /\ forward' = forward /\ identified' = identified /\ ~failed
    BY <1>4 DEF NextDataID, Become, NextID, mp
  <2> QED
    BY <2>1 DEF IdentityIsClosure, IsClosureOf, SameID, Has, Forward, mp
<1>5. CASE Finalize \/ UNCHANGED vars
  BY <1>5 DEF Finalize, vars, IdentityIsClosure, IsClosureOf, SameID, Has, Forward, mp
<1>6. ASSUME NEW l \in Label, Add(l) PROVE IdentityIsClosure'
  <2>1. MapInv(mp) /\ IsClosureOf(mp, identified) /\ (Has(mp, l) \/ mp.id < MaxID)
    BY <1>6, <1>b DEF Add, mp
  <2>2. AddNew(mp, l) \in MapValue /\ IsClosureOf(AddNew(mp, l), identified)
    BY <1>1, <2>1, AddNewInv, AddNewClosure DEF MapInv
  <2> QED
    BY <1>6, <1>a, <2>2 DEF Add
<1>7. ASSUME NEW same \in Label, NEW old \in Label, Identify(same, old) PROVE IdentityIsClosure'
  <2>1. /\ MapInv(mp) /\ IsClosureOf(mp, identified)
        /\ (Has(mp, same) /\ Has(mp, old)) \/ mp.id + 1 < MaxID
    BY <1>7, <1>b DEF Identify, mp
  <2>2. /\ MarkIdentical(mp, same, old) \in MapValue
        /\ IsClosureOf(MarkIdentical(mp, same, old), identified \union {{same, old}})
    BY <1>1, <2>1, MarkIdenticalInv, MarkIdenticalClosure DEF MapInv
  <2> QED
    BY <1>7, <1>a, <2>2 DEF Identify
<1>8. (\E l \in Label : AddFails(l)) \/ (\E same, old \in Label : IdentifyFails(same, old))
         \/ ResetFails => failed' = TRUE
  BY DEF AddFails, IdentifyFails, ResetFails
<1> QED
  BY <1>2, <1>3, <1>4, <1>5, <1>6, <1>7, <1>8 DEF Next

\* Canonical ids are shared exactly by the labels the marks force together.
THEOREM IdentityClosed == Spec => []IdentityIsClosure
<1>1. Init => IdentityIsClosure
  BY DEF Init, IdentityIsClosure, IsClosureOf, SameID, Has, EmptyMap, NoTripleID, mp
<1> QED
  BY <1>1, ClosureStep, InductiveInvariant, PTL DEF Spec

-------------------------------------------------------------------------------
\* The refinement: rep of a map value, and how AddNew changes it.
RepOf(m) == [l \in Label |-> Representative(m, l)]

\* A label that is known has a known representative.
LEMMA RepKnown ==
    ASSUME NEW m, MapInv(m), NEW l \in Label
    PROVE  /\ Representative(m, l) # NoLabel <=> Has(m, l)
           /\ Has(m, l) => Representative(m, l) = m.reverse[Forward(m, l)]
           /\ Representative(m, l) \in Label \union {NoLabel}
<1>1. CASE Has(m, l)
  BY <1>1, LabelAssumption
  DEF MapInv, HalvesTogether, Fixpoints, Representative, Reverse, Forward
<1>2. CASE ~Has(m, l)
  <2>1. Forward(m, l) = NoID
    BY <1>2, KnownIffCanonical
  <2> QED
    BY <1>2, <2>1, LabelAssumption DEF Representative, Reverse, ID, NoID
<1> QED BY <1>1, <1>2

\* Representatives are equal exactly when canonical ids are.
LEMMA RepInjective ==
    ASSUME NEW m, MapInv(m), NEW k \in Label, NEW l \in Label, Has(m, k), Has(m, l)
    PROVE  Representative(m, k) = Representative(m, l) <=> Forward(m, k) = Forward(m, l)
<1>1. /\ Representative(m, k) = m.reverse[Forward(m, k)]
      /\ Representative(m, l) = m.reverse[Forward(m, l)]
  BY RepKnown
<1>2. /\ Forward(m, m.reverse[Forward(m, k)]) = Forward(m, k)
      /\ Forward(m, m.reverse[Forward(m, l)]) = Forward(m, l)
  BY DEF MapInv, Fixpoints, Forward
<1> QED BY <1>1, <1>2

\* Adding a label makes it its own representative.
LEMMA AddNewRep ==
    ASSUME NEW m, MapInv(m), NEW l \in Label, Has(m, l) \/ m.id < MaxID
    PROVE  RepOf(AddNew(m, l)) =
             IF Has(m, l) THEN RepOf(m) ELSE [RepOf(m) EXCEPT ![l] = l]
<1> DEFINE n == AddNew(m, l)
<1>1. CASE Has(m, l)
  BY <1>1, AddNewInv
<1>2. CASE ~Has(m, l)
  <2>1. /\ MapInv(n) /\ Has(n, l)
        /\ \A k \in Label : k # l => n.forward[k] = m.forward[k]
        /\ \A k \in Label : Has(m, k) => Forward(m, k) # Forward(n, l)
    BY <1>2, AddNewInv
  <2>2. m.id + 1 \in ID /\ m \in MapValue
    BY <1>2, LabelAssumption DEF MapInv, MapValue, ID, NoID
  <2>3. Forward(n, l) = m.id + 1 /\ n.reverse = [m.reverse EXCEPT ![m.id + 1] = l]
    BY <1>2, <2>2 DEF AddNew, MapValue, Forward
  <2>4. Representative(n, l) = l
    BY <2>1, <2>2, <2>3, RepKnown DEF MapValue
  <2>5. ASSUME NEW k \in Label, k # l
        PROVE  Representative(n, k) = Representative(m, k)
    <3>1. CASE Has(m, k)
      <4>1. Has(n, k) /\ Forward(n, k) = Forward(m, k) /\ Forward(m, k) # m.id + 1
        BY <2>1, <2>3, <2>5, <3>1 DEF Has, Forward
      <4>2. Forward(m, k) \in ID
        BY <3>1 DEF MapInv, HalvesTogether, Forward
      <4>3. n.reverse[Forward(m, k)] = m.reverse[Forward(m, k)]
        BY <2>2, <2>3, <4>1, <4>2 DEF MapValue
      <4> QED
        BY <2>1, <3>1, <4>1, <4>3, RepKnown
    <3>2. CASE ~Has(m, k)
      <4>1. ~Has(n, k)
        BY <2>1, <2>5, <3>2 DEF Has
      <4> QED
        BY <2>1, <3>2, <4>1, RepKnown
    <3> QED BY <3>1, <3>2
  <2> QED
    BY <1>2, <2>4, <2>5 DEF RepOf
<1> QED BY <1>1, <1>2

\* MarkIdentical gives the class of old the representative of same.
LEMMA MarkIdenticalRep ==
    ASSUME NEW m, MapInv(m), NEW same \in Label, NEW old \in Label,
           (Has(m, same) /\ Has(m, old)) \/ m.id + 1 < MaxID
    PROVE  RepOf(MarkIdentical(m, same, old)) =
             LET self(l) == IF Has(m, l) THEN Representative(m, l) ELSE l
             IN  [l \in Label |->
                    IF \/ l \in {same, old}
                       \/ Has(m, l) /\ Representative(m, l) = self(old)
                    THEN self(same)
                    ELSE Representative(m, l)]
<1> DEFINE a == AddNew(m, same)
           b == BothAdded(m, same, old)
           n == MarkIdentical(m, same, old)
           self(l) == IF Has(m, l) THEN Representative(m, l) ELSE l
<1>1. /\ MapInv(a) /\ MapInv(b) /\ Has(b, same) /\ Has(b, old)
      /\ Has(a, old) \/ a.id < MaxID
      /\ Has(m, same) \/ m.id < MaxID
  <2>1. Has(m, same) \/ m.id < MaxID
    BY LabelAssumption DEF MapInv, MapValue, ID, NoID
  <2> QED BY <2>1, BothAddedInv
<1>2. MapInv(n)
  BY MarkIdenticalInv
<1>3. \A l \in Label : Representative(b, l) = IF l \in {same, old} THEN self(l)
                                              ELSE Representative(m, l)
  <2>1. RepOf(a) = IF Has(m, same) THEN RepOf(m) ELSE [RepOf(m) EXCEPT ![same] = same]
    BY <1>1, AddNewRep
  <2>2. RepOf(b) = IF Has(a, old) THEN RepOf(a) ELSE [RepOf(a) EXCEPT ![old] = old]
    BY <1>1, AddNewRep DEF BothAdded
  <2>3. Has(a, old) <=> Has(m, old) \/ old = same
    BY <1>1, AddNewInv DEF Has
  <2>4. \A l \in Label : Representative(a, l) = IF l = same THEN self(l) ELSE Representative(m, l)
    BY <2>1 DEF RepOf
  <2>5. \A l \in Label : Representative(b, l) = IF l = old /\ ~Has(a, old) THEN old
                                                ELSE Representative(a, l)
    BY <2>2 DEF RepOf
  <2> QED
    BY <2>3, <2>4, <2>5
<1>4. \A l \in Label : Has(b, l) <=> Has(m, l) \/ l \in {same, old}
  BY <1>1, AddNewInv DEF BothAdded, Has
<1>5. /\ n.reverse = b.reverse
      /\ \A l \in Label :
            /\ Has(n, l) <=> Has(b, l)
            /\ Forward(n, l) = IF Has(b, l) /\ Forward(b, l) = Forward(b, old)
                               THEN Forward(b, same) ELSE Forward(b, l)
  BY MarkIdenticalMoves
<1>6. ASSUME NEW l \in Label
      PROVE  Representative(n, l) =
               IF Has(b, l) /\ Representative(b, l) = Representative(b, old)
               THEN Representative(b, same) ELSE Representative(b, l)
  <2>1. CASE ~Has(b, l)
    BY <2>1, <1>1, <1>2, <1>5, RepKnown
  <2>2. CASE Has(b, l)
    <3>1. Representative(b, l) = Representative(b, old) <=> Forward(b, l) = Forward(b, old)
      BY <2>2, <1>1, RepInjective
    <3>2. /\ Representative(n, l) = b.reverse[Forward(n, l)]
          /\ Representative(b, l) = b.reverse[Forward(b, l)]
          /\ Representative(b, same) = b.reverse[Forward(b, same)]
      BY <2>2, <1>1, <1>2, <1>5, RepKnown
    <3> QED
      BY <2>2, <3>1, <3>2, <1>5
  <2> QED BY <2>1, <2>2
<1>7. ASSUME NEW l \in Label
      PROVE  Representative(n, l) =
               IF \/ l \in {same, old}
                  \/ Has(m, l) /\ Representative(m, l) = self(old)
               THEN self(same)
               ELSE Representative(m, l)
  BY <1>1, <1>3, <1>4, <1>6
<1> QED
  BY <1>7 DEF RepOf

\* The zero IMap is the empty partition.
LEMMA PartitionInit == Init => P!Init
<1> SUFFICES ASSUME Init PROVE P!Init
  OBVIOUS
<1>1. mp = EmptyMap
  BY DEF Init, mp, EmptyMap
<1>2. \A l \in Label : Representative(mp, l) = NoLabel
  BY <1>1, LabelAssumption
  DEF Representative, Reverse, Forward, EmptyMap, NoTripleID, ID, NoID
<1> QED
  BY <1>2 DEF P!Init, rep, Init

\* Every step is one of the partition, or leaves the representatives alone.
LEMMA PartitionStep == IInv /\ IInv' /\ [Next]_vars => [P!Next]_rep
<1> SUFFICES ASSUME IInv, IInv', [Next]_vars PROVE P!Next \/ rep' = rep
  OBVIOUS
<1>0. /\ mp \in MapValue /\ (~failed => MapInv(mp))
      /\ mp' \in MapValue
  BY DEF IInv, TypeOK
<1>a. ~failed => rep = RepOf(mp)
  BY DEF rep, RepOf
<1>b. ASSUME NEW m \in MapValue, Become(m), ~failed'
      PROVE  rep' = RepOf(m)
  <2>1. mp' = m
    BY <1>b, BecomeValue
  <2> QED
    BY <1>b, <2>1 DEF rep, RepOf, Representative, Reverse, Forward
<1>c. ASSUME \A l \in Label : forward'[l] = NoTripleID
      PROVE  P!Forget
  <2>1. \A l \in Label : mp'.forward[l] = NoTripleID
    BY <1>c DEF mp
  <2>2. \A l \in Label : Representative(mp', l) = NoLabel
    BY <2>1, LabelAssumption DEF Representative, Reverse, Forward, NoTripleID, ID, NoID
  <2>3. \A l \in Label : rep'[l] = NoLabel
    BY <2>2 DEF rep, Representative, Reverse, Forward
  <2> QED
    BY <2>3 DEF P!Forget, rep
<1>1. CASE Reset \/ ResetFails \/ Close
  <2>1. \A l \in Label : forward'[l] = NoTripleID
    BY <1>1 DEF Reset, ResetFails, Close, Become, EmptyMap
  <2> QED
    BY <2>1, <1>c DEF P!Next
<1>2. CASE failed' = TRUE
  <2>1. rep' = [l \in Label |-> NoLabel]
    BY <1>2 DEF rep
  <2> QED
    BY <2>1 DEF P!Next, P!Forget
<1>3. CASE NextDataID
  <2>1. NextID(mp) \in MapValue /\ Become(NextID(mp)) /\ ~failed /\ ~failed'
    <3>1. id + 1 \in ID /\ mp.id = id
      BY <1>3, <1>0, LabelAssumption DEF NextDataID, mp, MapValue, ID, NoID
    <3> QED
      BY <1>3, <1>0, <3>1 DEF NextDataID, NextID, MapValue
  <2>2. RepOf(NextID(mp)) = RepOf(mp)
    BY DEF RepOf, NextID, Representative, Reverse, Forward
  <2> QED
    BY <1>a, <1>b, <2>1, <2>2
<1>4. CASE Finalize \/ UNCHANGED vars
  BY <1>4 DEF Finalize, vars, rep, mp, Representative, Reverse, Forward
<1>5. ASSUME NEW l \in Label, Add(l) PROVE P!Next \/ rep' = rep
  <2>1. ~failed /\ ~failed' /\ MapInv(mp) /\ (Has(mp, l) \/ mp.id < MaxID) /\ Become(AddNew(mp, l))
    BY <1>5, <1>0 DEF Add, CanMutate, mp
  <2>2. rep' = RepOf(AddNew(mp, l))
    BY <2>1, <1>b, AddNewInv DEF MapInv
  <2>3. rep' = IF Has(mp, l) THEN rep ELSE [rep EXCEPT ![l] = l]
    BY <2>1, <2>2, <1>a, AddNewRep
  <2>4. ~Has(mp, l) => rep[l] = NoLabel
    BY <2>1, <1>a, RepKnown DEF RepOf
  <2> QED
    BY <2>3, <2>4 DEF P!Next, P!Intern
<1>6. ASSUME NEW same \in Label, NEW old \in Label, Identify(same, old) PROVE P!Next
  <2>1. /\ ~failed /\ ~failed' /\ MapInv(mp)
        /\ (Has(mp, same) /\ Has(mp, old)) \/ mp.id + 1 < MaxID
        /\ Become(MarkIdentical(mp, same, old))
    BY <1>6, <1>0 DEF Identify, CanMutate, mp
  <2>2. rep' = RepOf(MarkIdentical(mp, same, old))
    BY <2>1, <1>b, MarkIdenticalInv DEF MapInv
  <2>3. \A l \in Label : rep[l] = Representative(mp, l) /\ (P!Known(l) <=> Has(mp, l))
    BY <2>1, <1>a, RepKnown DEF RepOf, P!Known
  <2>4. \A l \in Label : P!RepOrSelf(l) = IF Has(mp, l) THEN Representative(mp, l) ELSE l
    BY <2>3 DEF P!RepOrSelf
  <2>5. P!Identify(same, old)
    BY <2>1, <2>2, <2>3, <2>4, MarkIdenticalRep DEF P!Identify
  <2> QED
    BY <2>5 DEF P!Next
<1>7. (\E l \in Label : AddFails(l)) \/ (\E same, old \in Label : IdentifyFails(same, old))
         => failed' = TRUE
  BY DEF AddFails, IdentifyFails
<1> QED
  BY <1>1, <1>2, <1>3, <1>4, <1>5, <1>6, <1>7 DEF Next

\* Seen from outside, the ids are just a partition with representatives.
THEOREM Refinement == Spec => ImplementsPartition
BY PartitionInit, PartitionStep, InductiveInvariant, PTL
   DEF Spec, ImplementsPartition, P!Spec
===============================================================================
