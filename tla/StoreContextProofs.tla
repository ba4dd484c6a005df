------------------------- MODULE StoreContextProofs ---------------------------
(***************************************************************************)
(* What StoreContext promises for any tree of bundles, any number of       *)
(* fields and any number of failing calls: the two WaitGroups keep         *)
(* writing, linking and exporting apart, so that Export does what          *)
(* TreeExport does one after the other.  The argument counts: each         *)
(* WaitGroup is at least the number of goroutines that owe it a Done.      *)
(***************************************************************************)
EXTENDS StoreContext, FiniteSetTheorems, TLAPS

-------------------------------------------------------------------------------
(* The inductive invariant *)

Running == {"entities", "children", "leave"}

\* The calls of extractWait.Done to come: one of each goroutine of a bundle
\* that runs, and one of each of its fields.
Owed == {t \in Bundle \X Nat : IF t[2] = 0 THEN task[t[1]] \in Running
                                           ELSE t[2] <= fieldsLeft[t[1]]}

\* The children that have not been added to a bundle which waits or adds: each
\* owes a childAddWait.Done.
Pending == {c \in Bundle : linked[c] = Busy \/ \E p \in Bundle : c \in Kids(p) /\ link[p] = "waiting"}

OwnDone == IF main = "storing" THEN 1 ELSE 0

ExtractCounts == IsFiniteSet(Owed) /\ Cardinality(Owed) + OwnDone <= extractWait
ChildCounts == Cardinality(Pending) <= childAddWait

\* The stages of a bundle follow each other.
Stages ==
    \A b \in Bundle :
        /\ storage[b] = "none" => task[b] = "none"
        /\ task[b] \in {"none", "entities"} => fieldsLeft[b] = 0
        /\ task[b] \in {"none", "entities", "children"} => link[b] = "none"
        /\ storage[b] = "final" => link[b] \in {"sending", "gone"}

\* Nothing is linked before the extraction is over, and Wait returns after both.
Barriers ==
    /\ \A b \in Bundle : link[b] \in {"linking", "sending", "gone"} => extractWait = 0
    /\ \A c \in Bundle : linked[c] = Busy => extractWait = 0
    /\ \A c, p \in Bundle : linked[c] = Busy /\ c \in Kids(p) => link[p] = "linking"
    /\ main \notin {"storing", "extract"} => extractWait = 0
    /\ Waited => childAddWait = 0

\* A call that failed before Wait returned was reported to it.
ErrorsKept ==
    /\ ~Waited => \A b \in Bundle : export[b] = "none"
    /\ ~Waited /\ err = NoError => faults = {}
    /\ Waited /\ result = NoError => \A f \in faults : f[1] \in LateKinds

Inv == TypeOK /\ ExtractCounts /\ ChildCounts /\ Stages /\ Barriers /\ ErrorsKept

-------------------------------------------------------------------------------
(* What the counts say *)

\* Bundles have at most one parent.
LEMMA OneParent ==
  ASSUME NEW c \in Bundle, NEW p \in Bundle, NEW q \in Bundle, c \in Kids(p), c \in Kids(q)
  PROVE  p = q
<1> DEFINE parents == {x \in Bundle : c \in Kids(x)}
<1>1. IsFiniteSet(parents) BY FS_Subset, StoreContextAssumption
<1>2. Cardinality(parents) \in {0, 1} BY StoreContextAssumption
<1>3. CASE Cardinality(parents) = 0
  <2>1. parents = {} BY <1>1, <1>3, FS_EmptySet
  <2> QED BY <2>1
<1>4. CASE Cardinality(parents) = 1
  <2>1. PICK x : parents = {x} BY <1>1, <1>4, FS_Singleton
  <2> QED BY <2>1
<1> QED BY <1>2, <1>3, <1>4

\* The bundles of the top level have none.
LEMMA RootsAreNoKids ==
  ASSUME NEW p \in Bundle, NEW b \in Kids(p) PROVE b \notin RootSet
<1> SUFFICES ASSUME b \in RootSet PROVE FALSE OBVIOUS
<1> DEFINE parents == {x \in Bundle : b \in Kids(x)}
<1>1. b \in Bundle BY StoreContextAssumption DEF RootSet
<1>2. Cardinality(parents) = 0 BY <1>1, StoreContextAssumption
<1>3. IsFiniteSet(parents) BY FS_Subset, StoreContextAssumption
<1>4. parents = {} BY <1>2, <1>3, FS_EmptySet
<1> QED BY <1>4

\* A kid is a bundle, and there are at most as many as the sequence is long.
LEMMA KidsAreBundles ==
  ASSUME NEW b \in Bundle
  PROVE  /\ Kids(b) \subseteq Bundle /\ IsFiniteSet(Kids(b))
         /\ Cardinality(Kids(b)) <= Len(Children[b]) /\ Len(Children[b]) \in Nat
<1>1. Children[b] \in Seq(Bundle) BY StoreContextAssumption
<1>2. DOMAIN Children[b] = 1 .. Len(Children[b]) /\ Len(Children[b]) \in Nat BY <1>1
<1>3. Kids(b) \subseteq Bundle BY <1>1, <1>2 DEF Kids
<1>4. IsFiniteSet(1 .. Len(Children[b])) /\ Cardinality(1 .. Len(Children[b])) = Len(Children[b])
  BY <1>2, FS_Interval
<1>5. Kids(b) = {Children[b][i] : i \in 1 .. Len(Children[b])} BY <1>2 DEF Kids
<1>6. IsFiniteSet(Kids(b)) BY <1>3, StoreContextAssumption, FS_Subset
<1>7. Cardinality(Kids(b)) <= Len(Children[b])
  <2> DEFINE f == [i \in 1 .. Len(Children[b]) |-> Children[b][i]]
  <2>1. f \in Surjection(1 .. Len(Children[b]), Kids(b)) BY <1>5 DEF Surjection
  <2> QED BY <2>1, <1>4, FS_Surjection
<1> QED BY <1>2, <1>3, <1>6, <1>7

\* When extractWait is zero no goroutine of the extraction is left.
LEMMA QuietWhenZero ==
  ASSUME TypeOK, ExtractCounts, extractWait = 0
  PROVE  main # "storing" /\ \A b \in Bundle : task[b] \notin Running /\ fieldsLeft[b] = 0
<1>1. Cardinality(Owed) \in Nat BY FS_CardinalityType DEF ExtractCounts
<1>2. main # "storing" /\ Cardinality(Owed) = 0 BY <1>1 DEF ExtractCounts, OwnDone
<1>3. Owed = {} BY <1>2, FS_EmptySet DEF ExtractCounts
<1>4. ASSUME NEW b \in Bundle PROVE task[b] \notin Running
  <2>1. <<b, 0>> \notin Owed BY <1>3
  <2> QED BY <2>1 DEF Owed
<1>5. ASSUME NEW b \in Bundle PROVE fieldsLeft[b] = 0
  <2>1. <<b, 1>> \notin Owed BY <1>3
  <2>2. fieldsLeft[b] \in Nat BY DEF TypeOK
  <2> QED BY <2>1, <2>2 DEF Owed
<1> QED BY <1>2, <1>4, <1>5

\* When childAddWait is zero no child is left to add.
LEMMA LinkedWhenZero ==
  ASSUME TypeOK, ChildCounts, childAddWait = 0
  PROVE  \A b \in Bundle : linked[b] # Busy /\ (link[b] = "waiting" => Kids(b) = {})
<1>1. IsFiniteSet(Pending) BY FS_Subset, StoreContextAssumption DEF Pending
<1>2. Cardinality(Pending) = 0 BY <1>1, FS_CardinalityType DEF ChildCounts
<1>3. Pending = {} BY <1>1, <1>2, FS_EmptySet
<1> QED BY <1>3, KidsAreBundles DEF Pending

\* The counts and the barriers are what the properties need.
LEMMA InvSuffices == Inv => NoWriterAfterWait /\ AddIsExclusive /\ OtherErrorsAreReturned
<1> SUFFICES ASSUME Inv PROVE NoWriterAfterWait /\ AddIsExclusive /\ OtherErrorsAreReturned
  OBVIOUS
<1>1. ASSUME extractWait = 0, NEW b \in Bundle PROVE task[b] # "entities" /\ fieldsLeft[b] = 0
  BY <1>1, QuietWhenZero DEF Inv, Running
<1>2. ASSUME Waited, NEW b \in Bundle
      PROVE  ~Writing(b) /\ (link[b] = "waiting" => Kids(b) = {})
  <2>1. extractWait = 0 /\ childAddWait = 0 BY <1>2 DEF Inv, Barriers, Waited
  <2> QED BY <2>1, <1>1, LinkedWhenZero, KidsAreBundles DEF Inv, Writing
<1>3. ASSUME NEW b \in Bundle, storage[b] = "final" PROVE ~Writing(b)
  <2>1. link[b] \in {"sending", "gone"} BY <1>3 DEF Inv, Stages
  <2>2. extractWait = 0 BY <2>1 DEF Inv, Barriers
  <2>3. \A c \in Kids(b) : linked[c] # Busy BY <2>1, KidsAreBundles DEF Inv, Barriers
  <2> QED BY <2>2, <2>3, <1>1 DEF Writing
<1>4. NoWriterAfterWait BY <1>2, <1>3 DEF NoWriterAfterWait
<1>5. ASSUME NEW b \in Bundle, task[b] = "entities"
      PROVE  fieldsLeft[b] = 0 /\ \A c \in {b} \union Kids(b) : linked[c] # Busy
  <2>1. fieldsLeft[b] = 0 BY <1>5 DEF Inv, Stages
  <2>2. extractWait # 0 BY <1>5, <1>1
  <2> QED BY <2>1, <2>2, KidsAreBundles DEF Inv, Barriers
<1>6. AddIsExclusive BY <1>5 DEF AddIsExclusive
<1>7. OtherErrorsAreReturned BY DEF OtherErrorsAreReturned, Inv, ErrorsKept, Waited
<1> QED BY <1>4, <1>6, <1>7

-------------------------------------------------------------------------------
(* How the counts change *)

\* A set with one element more has at most one more.
LEMMA AddOne ==
  ASSUME NEW S, IsFiniteSet(S), NEW t
  PROVE  /\ IsFiniteSet(S \union {t}) /\ Cardinality(S) \in Nat
         /\ Cardinality(S \union {t}) <= Cardinality(S) + 1
<1>1. Cardinality(S) \in Nat BY FS_CardinalityType
<1>2. /\ IsFiniteSet(S \union {t})
      /\ Cardinality(S \union {t}) \in {Cardinality(S), Cardinality(S) + 1}
  BY FS_AddElement
<1> QED BY <1>1, <1>2

\* A set with one of its elements less has one less.
LEMMA TakeOne ==
  ASSUME NEW S, IsFiniteSet(S), NEW t \in S
  PROVE  /\ IsFiniteSet(S \ {t}) /\ Cardinality(S) \in Nat
         /\ Cardinality(S \ {t}) = Cardinality(S) - 1
BY FS_RemoveElement, FS_CardinalityType

\* The pairs of a bundle and its fields are as many as the fields.
LEMMA FieldsOfOne ==
  ASSUME NEW b, NEW n \in Nat
  PROVE  IsFiniteSet({b} \X (1 .. n)) /\ Cardinality({b} \X (1 .. n)) = n
<1>1. IsFiniteSet(1 .. n) /\ Cardinality(1 .. n) = n BY FS_Interval
<1>2. IsFiniteSet({b}) /\ Cardinality({b}) = 1 BY FS_Singleton
<1>3. IsFiniteSet({b} \X (1 .. n)) /\ Cardinality({b} \X (1 .. n)) = 1 * n
  BY <1>1, <1>2, FS_Product
<1> QED BY <1>3

\* A goroutine of a bundle starts, or reaches its end.
LEMMA OwedByTask ==
  ASSUME TypeOK, NEW b \in Bundle, NEW x, task' = Move(task, b, x), UNCHANGED fieldsLeft
  PROVE  /\ x \in Running => Owed' = Owed \union {<<b, 0>>}
         /\ x \notin Running => Owed' = Owed \ {<<b, 0>>}
<1>1. \A c \in Bundle : task'[c] = IF c = b THEN x ELSE task[c] BY DEF TypeOK, Move
<1> QED BY <1>1 DEF Owed

\* The fields of a bundle start.
LEMMA OwedByFields ==
  ASSUME TypeOK, NEW b \in Bundle, NEW n \in Nat, fieldsLeft[b] = 0, task[b] \in Running,
         NEW x \in Running, task' = Move(task, b, x), fieldsLeft' = [fieldsLeft EXCEPT ![b] = n]
  PROVE  Owed' = Owed \union ({b} \X (1 .. n))
<1>1. \A c \in Bundle : task'[c] = IF c = b THEN x ELSE task[c] BY DEF TypeOK, Move
<1>2. \A c \in Bundle : fieldsLeft'[c] = IF c = b THEN n ELSE fieldsLeft[c] BY DEF TypeOK
<1> QED BY <1>1, <1>2 DEF Owed

\* A field comes to its end.
LEMMA OwedByField ==
  ASSUME TypeOK, NEW b \in Bundle, fieldsLeft[b] > 0,
         UNCHANGED task, fieldsLeft' = [fieldsLeft EXCEPT ![b] = @ - 1]
  PROVE  <<b, fieldsLeft[b]>> \in Owed /\ Owed' = Owed \ {<<b, fieldsLeft[b]>>}
<1>1. \A c \in Bundle : fieldsLeft'[c] = IF c = b THEN fieldsLeft[b] - 1 ELSE fieldsLeft[c]
  BY DEF TypeOK
<1>2. fieldsLeft \in [Bundle -> Nat] BY DEF TypeOK
<1> QED BY <1>1, <1>2 DEF Owed

\* What a step leaves alone stays counted.
LEMMA CountsStay ==
  /\ ExtractCounts /\ UNCHANGED <<task, fieldsLeft, main, extractWait>> => ExtractCounts'
  /\ ChildCounts /\ UNCHANGED <<link, linked, childAddWait>> => ChildCounts'
BY DEF ExtractCounts, ChildCounts, Owed, OwnDone, Pending

-------------------------------------------------------------------------------
(* Each step keeps the invariant *)

\* What is dropped is a value or an entity of the bundle.
LEMMA DropTyped ==
  ASSUME TypeOK, NEW kind \in {"value", "child"}, NEW b \in Bundle, MayDrop(kind, b)
  PROVE  /\ dropped' \subseteq {"value", "child"} \X Bundle
         /\ \A c \in Bundle : c # b => (Lossy(c)' <=> Lossy(c))
<1>1. dropped' = dropped \/ dropped' = dropped \union {<<kind, b>>} BY DEF MayDrop
<1>2. dropped' \subseteq {"value", "child"} \X Bundle BY <1>1 DEF TypeOK
<1>3. ASSUME NEW c \in Bundle, c # b PROVE Lossy(c)' <=> Lossy(c)
  <2>1. \A k : <<k, c>> \in dropped' <=> <<k, c>> \in dropped BY <1>1, <1>3
  <2> QED BY <2>1 DEF Lossy
<1> QED BY <1>2, <1>3

\* A report of an error keeps it, as long as Wait has not returned.
LEMMA ReportKept ==
  ASSUME TypeOK, ErrorsKept, ~Waited, NEW kind \in Kinds, NEW b \in Bundle,
         Fine \/ Reported(kind, b), UNCHANGED <<main, export>>
  PROVE  ErrorsKept' /\ faults' \subseteq Kinds \X Bundle /\ err' \in Kinds \union {NoError}
         /\ result' = result
<1>1. ~Waited' BY DEF Waited
<1>2. CASE Fine BY <1>1, <1>2 DEF Fine, errors, ErrorsKept, TypeOK, Waited
<1>3. CASE Reported(kind, b)
  <2>1. err' # NoError /\ err' \in Kinds
    BY <1>3 DEF Reported, First, Kinds, NoError, TypeOK
  <2> QED BY <1>1, <1>3, <2>1 DEF Reported, FaultIn, ErrorsKept, TypeOK
<1> QED BY <1>2, <1>3

\* The count and Finalize may fail after Wait has returned, too.
LEMMA LateReportKept ==
  ASSUME TypeOK, ErrorsKept, NEW b \in Bundle,
         Fine \/ Reported("count", b) \/ Reported("finalize", b), UNCHANGED <<main, export>>
  PROVE  ErrorsKept' /\ faults' \subseteq Kinds \X Bundle /\ err' \in Kinds \union {NoError}
         /\ result' = result
<1>1. CASE Fine BY <1>1 DEF Fine, errors, ErrorsKept, TypeOK, Waited
<1>2. CASE ~Waited BY <1>2, ReportKept DEF Kinds
<1>3. ASSUME Waited, NEW kind \in {"count", "finalize"}, Reported(kind, b)
      PROVE  ErrorsKept' /\ faults' \subseteq Kinds \X Bundle /\ err' \in Kinds \union {NoError}
             /\ result' = result
  <2>1. faults' = faults \union {<<kind, b>>} /\ <<kind, b>>[1] = kind /\ UNCHANGED result
    BY <1>3 DEF Reported, FaultIn
  <2>2. err' \in Kinds \union {NoError} BY <1>3 DEF Reported, First, Kinds, TypeOK
  <2>3. faults' \subseteq Kinds \X Bundle BY <2>1 DEF TypeOK, Kinds
  <2>4. \A f \in faults' : f \in faults \/ f[1] = kind BY <2>1
  <2>5. result' = NoError => \A f \in faults' : f[1] \in LateKinds
    BY <1>3, <2>1, <2>4 DEF ErrorsKept, LateKinds
  <2> QED BY <1>3, <2>1, <2>2, <2>3, <2>5 DEF ErrorsKept, Waited
<1> QED BY <1>1, <1>2, <1>3

\* Before the extraction is over Wait has not returned, and nothing is linked.
LEMMA WhileExtracting ==
  ASSUME TypeOK, Barriers, extractWait # 0
  PROVE  ~Waited /\ \A b \in Bundle : link[b] \in {"none", "waiting"} /\ linked[b] # Busy
BY DEF TypeOK, Barriers, Waited

\* Store of one bundle.
LEMMA StoreKeepsInv ==
  ASSUME Inv, NEW b \in Bundle, storage[b] = "none", extractWait # 0,
         StoreOpens(b) \/ StoreFails(b),
         UNCHANGED <<main, childAddWait, added, fieldsLeft, finished, linking, dropped, export, crashed>>
  PROVE  Inv'
<1> USE DEF Inv
<1>1. task[b] = "none" /\ fieldsLeft[b] = 0 /\ link[b] = "none" BY DEF Stages
<1>2. ~Waited /\ \A c \in Bundle : link[c] \in {"none", "waiting"} /\ linked[c] # Busy
  BY WhileExtracting
<1>3. Fine \/ Reported("open", b) BY DEF StoreOpens, StoreFails
<1>4. ErrorsKept' /\ faults' \subseteq Kinds \X Bundle /\ err' \in Kinds \union {NoError}
      /\ result' = result
  BY <1>2, <1>3, ReportKept DEF Kinds
<1>5. extractWait' \in Nat /\ extractWait' # 0 BY DEF StoreOpens, StoreFails, TypeOK
<1>6. TypeOK' BY <1>4, <1>5 DEF TypeOK, StoreOpens, StoreFails, Move, linking
<1>7. ExtractCounts'
  <2>1. CASE StoreOpens(b)
    <3>1. Owed' = Owed \union {<<b, 0>>} BY <2>1, OwedByTask DEF StoreOpens, Running
    <3>2. IsFiniteSet(Owed') /\ Cardinality(Owed') <= Cardinality(Owed) + 1
          /\ Cardinality(Owed) \in Nat
      BY <3>1, AddOne DEF ExtractCounts
    <3>3. IsFiniteSet(Owed') /\ Cardinality(Owed') \in Nat BY <3>2, FS_CardinalityType
    <3> QED BY <2>1, <3>2, <3>3 DEF ExtractCounts, OwnDone, StoreOpens, TypeOK
  <2>2. CASE StoreFails(b)
    <3>1. Owed' = Owed \ {<<b, 0>>} BY <2>2, OwedByTask DEF StoreFails, Running
    <3>2. <<b, 0>> \notin Owed BY <1>1 DEF Owed, Running
    <3>3. Owed' = Owed BY <3>1, <3>2
    <3> QED BY <2>2, <3>3 DEF ExtractCounts, OwnDone, StoreFails
  <2> QED BY <2>1, <2>2
<1>8. ChildCounts' BY CountsStay DEF linking
<1>9. Stages' BY <1>1 DEF Stages, StoreOpens, StoreFails, Move, TypeOK, linking
<1>10. Barriers' BY <1>2, <1>5 DEF Barriers, Waited, linking
<1> QED BY <1>4, <1>6, <1>7, <1>8, <1>9, <1>10

\* The caller, and a goroutine in stage 3, count themselves.
LEMMA StorersCounted ==
  ASSUME TypeOK, ExtractCounts, main = "storing" \/ \E b \in Bundle : task[b] \in Running
  PROVE  extractWait # 0
BY QuietWhenZero

\* The caller stores the next root.
LEMMA StoreRootKeepsInv == ASSUME Inv, StoreRoot PROVE Inv'
<1>1. PICK i \in DOMAIN Roots : storage[Roots[i]] = "none" /\ (StoreOpens(Roots[i]) \/ StoreFails(Roots[i]))
  BY DEF StoreRoot, StoreNext
<1>2. Roots[i] \in Bundle BY StoreContextAssumption
<1>3. extractWait # 0 BY StorersCounted DEF StoreRoot, Inv
<1> QED BY <1>1, <1>2, <1>3, StoreKeepsInv DEF StoreRoot

\* A goroutine in stage 3 stores the next child.
LEMMA StoreChildKeepsInv == ASSUME Inv, NEW b \in Bundle, StoreChild(b) PROVE Inv'
<1>1. PICK i \in DOMAIN Children[b] :
        storage[Children[b][i]] = "none" /\ (StoreOpens(Children[b][i]) \/ StoreFails(Children[b][i]))
  BY DEF StoreChild, StoreNext
<1>2. Children[b][i] \in Bundle BY StoreContextAssumption
<1>3. extractWait # 0 BY StorersCounted DEF StoreChild, Inv, Running
<1> QED BY <1>1, <1>2, <1>3, StoreKeepsInv DEF StoreChild

\* Stage 1 ends: the goroutine counts its fields, or is about to leave.
LEMMA AddEntitiesKeepsInv == ASSUME Inv, NEW b \in Bundle, AddEntities(b) PROVE Inv'
<1> USE DEF Inv
<1>1. task[b] = "entities" /\ fieldsLeft[b] = 0 /\ link[b] = "none" BY DEF AddEntities, Stages
<1>2. extractWait # 0 BY <1>1, StorersCounted DEF Running
<1>3. ~Waited /\ \A c \in Bundle : link[c] \in {"none", "waiting"} /\ linked[c] # Busy
  BY <1>2, WhileExtracting
<1>4. ErrorsKept' /\ faults' \subseteq Kinds \X Bundle /\ err' \in Kinds \union {NoError}
      /\ result' = result
  <2>1. Fine \/ Reported("entities", b) BY DEF AddEntities
  <2> QED BY <1>3, <2>1, ReportKept DEF Kinds, AddEntities
<1>5. Fields[b] \in Nat BY StoreContextAssumption
<1>6. extractWait' \in Nat /\ extractWait' # 0 BY <1>2, <1>5 DEF AddEntities, TypeOK
<1>7. TypeOK' BY <1>4, <1>5, <1>6 DEF TypeOK, AddEntities, Move, linking, Amount
<1>8. ExtractCounts'
  <2>1. CASE task' = Move(task, b, "children")
    <3>1. /\ fieldsLeft' = [fieldsLeft EXCEPT ![b] = Fields[b]]
          /\ extractWait' = extractWait + Fields[b] /\ UNCHANGED main
      <4>1. Move(task, b, "children")[b] = "children" /\ Move(task, b, "leave")[b] = "leave"
        BY DEF Move, TypeOK
      <4> QED BY <2>1, <4>1 DEF AddEntities
    <3>2. Owed' = Owed \union ({b} \X (1 .. Fields[b]))
      BY <1>1, <1>5, <2>1, <3>1, OwedByFields DEF Running
    <3> DEFINE new == {b} \X (1 .. Fields[b])
    <3>3. IsFiniteSet(new) /\ Cardinality(new) = Fields[b] BY <1>5, FieldsOfOne
    <3>4. Cardinality(Owed) \in Nat BY FS_CardinalityType DEF ExtractCounts
    <3>5. IsFiniteSet(Owed') /\ Cardinality(Owed') <= Cardinality(Owed) + Fields[b]
      <4>1. Owed \intersect new = {} BY <1>1 DEF Owed
      <4>2. IsFiniteSet(Owed \union new) BY <3>3, FS_Union DEF ExtractCounts
      <4>3. Cardinality(Owed \union new)
              = Cardinality(Owed) + Cardinality(new) - Cardinality(Owed \intersect new)
        BY <3>3, FS_Union DEF ExtractCounts
      <4>4. Cardinality(Owed \intersect new) = 0 BY <4>1, FS_EmptySet
      <4> QED BY <3>2, <3>3, <3>4, <4>2, <4>3, <4>4, <1>5
    <3>6. Cardinality(Owed') \in Nat BY <3>5, FS_CardinalityType
    <3> QED BY <1>5, <3>1, <3>4, <3>5, <3>6 DEF ExtractCounts, OwnDone, TypeOK
  <2>2. CASE task' = Move(task, b, "leave") /\ UNCHANGED <<extractWait, fieldsLeft>>
    <3>1. Owed' = Owed \union {<<b, 0>>} BY <2>2, OwedByTask DEF Running
    <3>2. <<b, 0>> \in Owed BY <1>1 DEF Owed, Running
    <3>3. Owed' = Owed BY <3>1, <3>2
    <3> QED BY <2>2, <3>3 DEF ExtractCounts, OwnDone, AddEntities
  <2> QED BY <2>1, <2>2 DEF AddEntities
<1>9. ChildCounts' BY CountsStay DEF AddEntities, linking
<1>10. Stages' BY <1>1 DEF Stages, AddEntities, Move, TypeOK, linking
<1>11. Barriers' BY <1>2, <1>3, <1>6 DEF Barriers, Waited, AddEntities, linking
<1> QED BY <1>4, <1>7, <1>8, <1>9, <1>10, <1>11

\* A field goroutine takes itself out of both counts.
LEMMA AddFieldKeepsInv == ASSUME Inv, NEW b \in Bundle, AddField(b) PROVE Inv'
<1> USE DEF Inv
<1>1. fieldsLeft[b] > 0 /\ fieldsLeft[b] \in Nat BY DEF AddField, TypeOK
<1>2. extractWait # 0 BY <1>1, QuietWhenZero
<1>3. ~Waited /\ \A c \in Bundle : link[c] \in {"none", "waiting"} /\ linked[c] # Busy
  BY <1>2, WhileExtracting
<1>4. ErrorsKept' /\ faults' \subseteq Kinds \X Bundle /\ err' \in Kinds \union {NoError}
      /\ result' = result
  <2>1. Fine \/ Reported("field", b) BY DEF AddField
  <2> QED BY <1>3, <2>1, ReportKept DEF Kinds, AddField
<1>5. extractWait' \in Nat BY <1>2 DEF AddField, TypeOK
<1>11. dropped' \subseteq {"value", "child"} \X Bundle BY DropTyped DEF AddField
<1>6. TypeOK' BY <1>1, <1>4, <1>5, <1>11 DEF TypeOK, AddField, linking
<1>7. ExtractCounts'
  <2>1. <<b, fieldsLeft[b]>> \in Owed /\ Owed' = Owed \ {<<b, fieldsLeft[b]>>}
    BY <1>1, OwedByField DEF AddField
  <2>2. /\ IsFiniteSet(Owed') /\ Cardinality(Owed) \in Nat
        /\ Cardinality(Owed') = Cardinality(Owed) - 1
    BY <2>1, TakeOne DEF ExtractCounts
  <2> QED BY <2>2 DEF ExtractCounts, OwnDone, AddField, TypeOK
<1>8. ChildCounts' BY CountsStay DEF AddField, linking
<1>9. Stages' BY <1>1 DEF Stages, AddField, TypeOK, linking
<1>10. Barriers'
  BY <1>2, <1>3 DEF Barriers, Waited, AddField, linking, TypeOK
<1> QED BY <1>4, <1>6, <1>7, <1>8, <1>9, <1>10

\* A goroutine whose child could not be stored still owes its Done.
LEMMA AbandonKeepsInv == ASSUME Inv, NEW b \in Bundle, Abandon(b) PROVE Inv'
<1> USE DEF Inv
<1>1. task[b] = "children" /\ link[b] = "none" BY DEF Abandon, Stages
<1>2. TypeOK' BY DEF TypeOK, Abandon, Move, linking, waits, errors
<1>3. Owed' = Owed
  <2>1. Owed' = Owed \union {<<b, 0>>} BY OwedByTask DEF Running, Abandon
  <2>2. <<b, 0>> \in Owed BY <1>1 DEF Owed, Running
  <2> QED BY <2>1, <2>2
<1>4. ExtractCounts' BY <1>3 DEF ExtractCounts, OwnDone, Abandon, waits
<1>5. ChildCounts' BY CountsStay DEF Abandon, linking, waits
<1>6. Stages' BY <1>1 DEF Stages, Abandon, Move, TypeOK, linking
<1>7. Barriers' BY DEF Barriers, Waited, Abandon, linking, waits
<1>8. ErrorsKept' BY DEF ErrorsKept, Waited, Abandon, errors
<1> QED BY <1>2, <1>4, <1>5, <1>6, <1>7, <1>8

\* Stage 4 raises childAddWait by at least the children it makes pending.
LEMMA StartLinkingKeepsInv == ASSUME Inv, NEW b \in Bundle, StartLinking(b) PROVE Inv'
<1> USE DEF Inv
<1>1. task[b] = "children" /\ link[b] = "none" BY DEF StartLinking, Stages
<1>2. extractWait # 0 BY <1>1, StorersCounted DEF Running
<1>3. ~Waited /\ \A c \in Bundle : link[c] \in {"none", "waiting"} /\ linked[c] # Busy
  BY <1>2, WhileExtracting
<1>4. Len(Children[b]) \in Nat /\ childAddWait' = childAddWait + Len(Children[b])
  BY KidsAreBundles DEF StartLinking, ForAllKids
<1>5. TypeOK' BY <1>4 DEF TypeOK, StartLinking, Move, errors
<1>6. ExtractCounts'
  <2>1. Owed' = Owed \union {<<b, 0>>} BY OwedByTask DEF Running, StartLinking
  <2>2. <<b, 0>> \in Owed BY <1>1 DEF Owed, Running
  <2>3. Owed' = Owed BY <2>1, <2>2
  <2> QED BY <2>3 DEF ExtractCounts, OwnDone, StartLinking
<1>7. ChildCounts'
  <2>1. Pending' \subseteq Pending \union Kids(b)
    <3>1. \A p \in Bundle : link'[p] = IF p = b THEN "waiting" ELSE link[p]
      BY DEF StartLinking, Move, TypeOK
    <3> QED BY <3>1 DEF Pending, StartLinking
  <2>2. IsFiniteSet(Pending) BY FS_Subset, StoreContextAssumption DEF Pending
  <2>3. IsFiniteSet(Kids(b)) /\ Cardinality(Kids(b)) <= Len(Children[b]) BY KidsAreBundles
  <2>4. IsFiniteSet(Pending \union Kids(b)) BY <2>2, <2>3, FS_Union
  <2>5. Cardinality(Pending \union Kids(b))
          = Cardinality(Pending) + Cardinality(Kids(b)) - Cardinality(Pending \intersect Kids(b))
    BY <2>2, <2>3, FS_Union
  <2>6. Cardinality(Pending') <= Cardinality(Pending \union Kids(b)) /\ IsFiniteSet(Pending')
    BY <2>1, <2>4, FS_Subset
  <2>7. IsFiniteSet(Pending \intersect Kids(b)) BY <2>2, FS_Subset
  <2>8. /\ Cardinality(Pending) \in Nat /\ Cardinality(Kids(b)) \in Nat
        /\ Cardinality(Pending \intersect Kids(b)) \in Nat /\ Cardinality(Pending') \in Nat
        /\ Cardinality(Pending \union Kids(b)) \in Nat
    BY <2>2, <2>3, <2>4, <2>6, <2>7, FS_CardinalityType
  <2> QED BY <1>4, <2>3, <2>5, <2>6, <2>8 DEF ChildCounts, TypeOK
<1>8. Stages' BY <1>1 DEF Stages, StartLinking, Move, TypeOK
<1>9. Barriers' BY <1>1, <1>3 DEF Barriers, Waited, StartLinking, Move, TypeOK
<1>10. ErrorsKept' BY DEF ErrorsKept, Waited, StartLinking, errors
<1> QED BY <1>5, <1>6, <1>7, <1>8, <1>9, <1>10

\* A goroutine takes itself out of both counts.
LEMMA LeaveKeepsInv == ASSUME Inv, NEW b \in Bundle, Leave(b) PROVE Inv'
<1> USE DEF Inv
<1>1. task[b] = "leave" BY DEF Leave
<1>2. extractWait # 0 BY <1>1, StorersCounted DEF Running
<1>3. ~Waited /\ \A c \in Bundle : link[c] \in {"none", "waiting"} /\ linked[c] # Busy
  BY <1>2, WhileExtracting
<1>4. extractWait' \in Nat BY <1>2 DEF Leave, TypeOK
<1>5. TypeOK' BY <1>4 DEF TypeOK, Leave, Move, linking, errors
<1>6. ExtractCounts'
  <2>1. Owed' = Owed \ {<<b, 0>>} BY OwedByTask DEF Running, Leave
  <2>2. <<b, 0>> \in Owed BY <1>1 DEF Owed, Running
  <2>3. /\ IsFiniteSet(Owed') /\ Cardinality(Owed) \in Nat
        /\ Cardinality(Owed') = Cardinality(Owed) - 1
    BY <2>1, <2>2, TakeOne DEF ExtractCounts
  <2> QED BY <2>3 DEF ExtractCounts, OwnDone, Leave, TypeOK
<1>7. ChildCounts' BY CountsStay DEF Leave, linking
<1>8. Stages' BY <1>1 DEF Stages, Leave, Move, TypeOK, linking
<1>9. Barriers' BY <1>2, <1>3 DEF Barriers, Waited, Leave, linking, TypeOK
<1>10. ErrorsKept' BY DEF ErrorsKept, Waited, Leave, errors
<1> QED BY <1>5, <1>6, <1>7, <1>8, <1>9, <1>10

\* onFinish runs after the Done, and owes nothing.
LEMMA FinishKeepsInv == ASSUME Inv, NEW b \in Bundle, Finish(b) PROVE Inv'
<1> USE DEF Inv
<1>1. task[b] = "finish" BY DEF Finish
<1>2. /\ ErrorsKept' /\ faults' \subseteq Kinds \X Bundle
      /\ err' \in Kinds \union {NoError} /\ result' = result
  BY LateReportKept DEF Finish
<1>7. TypeOK' BY <1>2 DEF TypeOK, Finish, Move, linking, waits
<1>3. ExtractCounts'
  <2>1. Owed' = Owed \ {<<b, 0>>} BY OwedByTask DEF Running, Finish
  <2>2. <<b, 0>> \notin Owed BY <1>1 DEF Owed, Running
  <2>3. Owed' = Owed BY <2>1, <2>2
  <2> QED BY <2>3 DEF ExtractCounts, OwnDone, Finish, waits
<1>4. ChildCounts' BY CountsStay DEF Finish, linking, waits
<1>5. Stages' BY <1>1 DEF Stages, Finish, Move, TypeOK, linking
<1>6. Barriers' BY DEF Barriers, Waited, Finish, linking, waits
<1> QED BY <1>2, <1>3, <1>4, <1>5, <1>6, <1>7

\* Children that were pending because their bundle waited are now added.
LEMMA StartAddingKeepsInv == ASSUME Inv, NEW b \in Bundle, StartAdding(b) PROVE Inv'
<1> USE DEF Inv
<1>1. link[b] = "waiting" /\ extractWait = 0 BY DEF StartAdding, MayLink
<1>2. \A p \in Bundle : link'[p] = IF p = b THEN "linking" ELSE link[p]
  BY DEF StartAdding, Move, TypeOK
<1>3. \A c \in Bundle : linked'[c] = IF c \in Kids(b) THEN Busy ELSE linked[c]
  BY DEF StartAdding
<1>4. TypeOK' BY DEF TypeOK, StartAdding, Move, errors, waits, filling
<1>5. ExtractCounts' BY CountsStay DEF StartAdding, waits, filling
<1>6. ChildCounts'
  <2>1. Pending' \subseteq Pending BY <1>1, <1>2, <1>3 DEF Pending
  <2>2. IsFiniteSet(Pending) BY FS_Subset, StoreContextAssumption DEF Pending
  <2>3. Cardinality(Pending') <= Cardinality(Pending) /\ IsFiniteSet(Pending')
    BY <2>1, <2>2, FS_Subset
  <2>4. Cardinality(Pending') \in Nat /\ Cardinality(Pending) \in Nat
    BY <2>2, <2>3, FS_CardinalityType
  <2> QED BY <2>3, <2>4 DEF ChildCounts, StartAdding, waits, TypeOK
<1>7. Stages' BY <1>1, <1>2 DEF Stages, StartAdding, filling
<1>8. Barriers'
  <2>1. ASSUME NEW c \in Bundle, NEW p \in Bundle, linked'[c] = Busy, c \in Kids(p)
        PROVE  link'[p] = "linking"
    <3>1. CASE c \in Kids(b) BY <3>1, <2>1, <1>2, OneParent
    <3>2. CASE c \notin Kids(b) BY <3>2, <2>1, <1>2, <1>3 DEF Barriers
    <3> QED BY <3>1, <3>2
  <2>2. UNCHANGED <<main, extractWait, childAddWait>> BY DEF StartAdding, waits
  <2> QED BY <1>1, <2>1, <2>2 DEF Barriers, Waited
<1>9. ErrorsKept' BY DEF ErrorsKept, Waited, StartAdding, errors
<1> QED BY <1>4, <1>5, <1>6, <1>7, <1>8, <1>9

\* A child that was added takes itself out of both counts.
LEMMA AddChildrenKeepsInv == ASSUME Inv, NEW c \in Bundle, AddChildren(c) PROVE Inv'
<1> USE DEF Inv
<1>1. linked[c] = Busy /\ extractWait = 0 BY DEF AddChildren, Barriers
<1>2. childAddWait # 0 BY <1>1, LinkedWhenZero
<1>3. ~Waited BY <1>2 DEF Barriers
<1>4. ErrorsKept' /\ faults' \subseteq Kinds \X Bundle /\ err' \in Kinds \union {NoError}
      /\ result' = result
  <2>1. Fine \/ Reported("child", c) BY DEF AddChildren
  <2> QED BY <1>3, <2>1, ReportKept DEF Kinds, AddChildren
<1>5. PICK x \in Amount : linked' = [linked EXCEPT ![c] = x]
  BY DEF AddChildren, TypeOK, filling
<1>6. childAddWait' = childAddWait - 1 /\ childAddWait' \in Nat
  BY <1>2 DEF AddChildren, TypeOK
<1>14. dropped' \subseteq {"value", "child"} \X Bundle BY DropTyped DEF AddChildren
<1>7. TypeOK' BY <1>4, <1>5, <1>6, <1>14 DEF TypeOK, AddChildren, filling
<1>8. ExtractCounts' BY CountsStay DEF AddChildren, filling
<1>9. \A d \in Bundle : linked'[d] = IF d = c THEN x ELSE linked[d] BY <1>5 DEF TypeOK
<1>10. x # Busy BY DEF Amount, Busy
<1>11. ChildCounts'
  <2>1. \A p \in Bundle : c \in Kids(p) => link[p] # "waiting" BY <1>1 DEF Barriers
  <2>2. Pending' = Pending \ {c} BY <1>9, <1>10, <2>1 DEF Pending, AddChildren
  <2>3. IsFiniteSet(Pending) BY FS_Subset, StoreContextAssumption DEF Pending
  <2>4. c \in Pending BY <1>1 DEF Pending
  <2>5. Cardinality(Pending') = Cardinality(Pending) - 1 /\ Cardinality(Pending) \in Nat
    BY <2>2, <2>3, <2>4, TakeOne
  <2> QED BY <1>6, <2>5 DEF ChildCounts, TypeOK
<1>12. Stages' BY DEF Stages, AddChildren, filling
<1>13. Barriers' BY <1>1, <1>3, <1>9, <1>10 DEF Barriers, Waited, AddChildren, filling
<1> QED BY <1>4, <1>7, <1>8, <1>11, <1>12, <1>13

\* A storage is finalised once none of its children is being added.
LEMMA FinalizeStorageKeepsInv == ASSUME Inv, NEW b \in Bundle, FinalizeStorage(b) PROVE Inv'
<1> USE DEF Inv
<1>1. link[b] = "linking" /\ extractWait = 0 BY DEF FinalizeStorage, Barriers
<1>2. \A c \in Kids(b) : linked[c] # Busy BY DEF FinalizeStorage, ChildrenAdded
<1>3. \A p \in Bundle : link'[p] = IF p = b THEN "sending" ELSE link[p]
  BY DEF FinalizeStorage, Move, TypeOK
<1>5. /\ ErrorsKept' /\ faults' \subseteq Kinds \X Bundle
      /\ err' \in Kinds \union {NoError} /\ result' = result
  BY LateReportKept DEF FinalizeStorage
<1>7. storage' \in {storage, Move(storage, b, "final")} BY DEF FinalizeStorage
<1>8. crashed' \in BOOLEAN BY DEF FinalizeStorage, TypeOK
<1>9. TypeOK' BY <1>5, <1>7, <1>8 DEF TypeOK, FinalizeStorage, Move, waits, filling
<1>10. ExtractCounts' BY CountsStay DEF FinalizeStorage, filling, waits
<1>11. ChildCounts'
  <2>1. Pending' = Pending BY <1>1, <1>3 DEF Pending, FinalizeStorage
  <2> QED BY <2>1 DEF ChildCounts, FinalizeStorage, waits
<1>12. Stages' BY <1>1, <1>3, <1>7 DEF Stages, FinalizeStorage, Move, TypeOK, filling
<1>13. Barriers' BY <1>1, <1>2, <1>3 DEF Barriers, Waited, FinalizeStorage, waits
<1> QED BY <1>5, <1>9, <1>10, <1>11, <1>12, <1>13

\* The Done that balances Open takes the caller out of the count.
LEMMA WaitDoneKeepsInv == ASSUME Inv, WaitDone PROVE Inv'
<1> USE DEF Inv
<1>1. extractWait # 0 /\ ~Waited BY StorersCounted DEF WaitDone, Waited
<1>2. \A c \in Bundle : link[c] \in {"none", "waiting"} /\ linked[c] # Busy
  BY <1>1, WhileExtracting
<1>3. extractWait' \in Nat BY <1>1 DEF WaitDone, TypeOK
<1>4. TypeOK' BY <1>3 DEF TypeOK, WaitDone, errors, filling, linking
<1>5. ExtractCounts'
  <2>1. Owed' = Owed BY DEF Owed, WaitDone, filling
  <2>2. Cardinality(Owed) \in Nat BY FS_CardinalityType DEF ExtractCounts
  <2> QED BY <2>1, <2>2 DEF ExtractCounts, OwnDone, WaitDone, TypeOK
<1>6. ChildCounts' BY CountsStay DEF WaitDone, linking
<1>7. Stages' BY DEF Stages, WaitDone, filling, linking
<1>8. Barriers' BY <1>2 DEF Barriers, Waited, WaitDone, linking
<1>9. ErrorsKept' BY <1>1 DEF ErrorsKept, Waited, WaitDone, errors
<1> QED BY <1>4, <1>5, <1>6, <1>7, <1>8, <1>9

\* The first wait returns.
LEMMA WaitExtractKeepsInv == ASSUME Inv, WaitExtract PROVE Inv'
<1> USE DEF Inv
<1>1. extractWait = 0 BY DEF WaitExtract, Extracted
<1>2. TypeOK' BY DEF TypeOK, WaitExtract, errors, filling, linking, waits
<1>3. ExtractCounts' BY DEF ExtractCounts, Owed, OwnDone, WaitExtract, filling, waits
<1>4. ChildCounts' BY CountsStay DEF WaitExtract, linking, waits
<1>5. Stages' BY DEF Stages, WaitExtract, filling, linking
<1>6. Barriers' BY <1>1 DEF Barriers, Waited, WaitExtract, linking, waits
<1>7. ErrorsKept' BY DEF ErrorsKept, Waited, WaitExtract, errors
<1> QED BY <1>2, <1>3, <1>4, <1>5, <1>6, <1>7

\* The second wait returns: what failed so far is in err, and now in result.
LEMMA WaitChildKeepsInv == ASSUME Inv, WaitChild PROVE Inv'
<1> USE DEF Inv
<1>1. extractWait = 0 /\ childAddWait = 0 BY DEF WaitChild, AllLinked, Barriers
<1>2. main = "child" /\ main' \in {"export", "close"} /\ result' = err BY DEF WaitChild
<1>3. export' \in [Bundle -> {"none", "begin", "loading", "closing", "closed"}]
  BY DEF WaitChild, TypeOK
<1>4. TypeOK' BY <1>2, <1>3 DEF TypeOK, WaitChild, filling, linking, waits
<1>5. ExtractCounts' BY <1>2 DEF ExtractCounts, Owed, OwnDone, WaitChild, filling, waits
<1>6. ChildCounts' BY CountsStay DEF WaitChild, linking, waits
<1>7. Stages' BY DEF Stages, WaitChild, filling, linking
<1>8. Barriers' BY <1>1 DEF Barriers, Waited, WaitChild, linking, waits
<1>9. ErrorsKept' BY <1>2 DEF ErrorsKept, Waited, WaitChild
<1> QED BY <1>4, <1>5, <1>6, <1>7, <1>8, <1>9

\* After the storing, a step that leaves the goroutines alone keeps the counts.
LEMMA QuietKeepsCounts ==
  ASSUME Inv, UNCHANGED <<waits, filling, linking>>, main # "storing", main' # "storing"
  PROVE  ExtractCounts' /\ ChildCounts'
BY CountsStay DEF Inv, ExtractCounts, Owed, OwnDone, waits, filling, linking

\* After Wait an error is kept in result, or it is one of those that Close loses.
LEMMA LateErrorsKept ==
  ASSUME TypeOK, ErrorsKept, Waited, Waited', NEW kind \in Kinds, NEW r \in Bundle,
         \/ Fine \/ ExportFault(kind, r)
         \/ kind = "closer" /\ FaultIn(kind, r) /\ UNCHANGED <<err, result>>
  PROVE  /\ ErrorsKept' /\ faults' \subseteq Kinds \X Bundle
         /\ err' \in Kinds \union {NoError} /\ result' \in Kinds \union {NoError}
<1>1. CASE Fine BY <1>1 DEF Fine, errors, TypeOK, ErrorsKept
<1>2. CASE ExportFault(kind, r)
  <2>1. faults' \subseteq Kinds \X Bundle /\ UNCHANGED err
    BY <1>2 DEF ExportFault, FaultIn, TypeOK
  <2>2. result' \in Kinds /\ result' # NoError
    BY <1>2 DEF ExportFault, First, Kinds, NoError, TypeOK
  <2> QED BY <2>1, <2>2 DEF ErrorsKept, TypeOK
<1>3. CASE kind = "closer" /\ FaultIn(kind, r) /\ UNCHANGED <<err, result>>
  <2>1. faults' = faults \union {<<"closer", r>>} /\ <<"closer", r>>[1] = "closer"
    BY <1>3 DEF FaultIn
  <2>2. faults' \subseteq Kinds \X Bundle BY <1>3, <2>1 DEF TypeOK
  <2> QED BY <1>3, <2>1, <2>2 DEF ErrorsKept, TypeOK, LateKinds
<1> QED BY <1>1, <1>2, <1>3

\* The steps of an exporting goroutine report their errors in result.
LEMMA ExportKeepsInv ==
  ASSUME Inv, NEW r \in Bundle, BeginExport(r) \/ LoadEntities(r) \/ CloseRoot(r)
  PROVE  Inv'
<1> USE DEF Inv
<1>1. export[r] # "none" BY DEF BeginExport, LoadEntities, CloseRoot
<1>2. Waited BY <1>1 DEF ErrorsKept
<1>3. /\ UNCHANGED <<main, waits, filling, linking, dropped, crashed>>
      /\ export' \in {Move(export, r, x) : x \in {"loading", "closing", "closed"}}
      /\ storage' \in {storage, Move(storage, r, "closed")}
      /\ Fine \/ ExportFault("export", r) \/ ExportFault("close", r)
  BY DEF BeginExport, LoadEntities, CloseRoot, Fine
<1>4. Waited' BY <1>2, <1>3 DEF Waited
<1>5. /\ ErrorsKept' /\ faults' \subseteq Kinds \X Bundle
      /\ err' \in Kinds \union {NoError} /\ result' \in Kinds \union {NoError}
  BY <1>2, <1>3, <1>4, LateErrorsKept DEF Kinds
<1>6. export' \in [Bundle -> {"none", "begin", "loading", "closing", "closed"}]
  BY <1>3 DEF TypeOK, Move
<1>7. storage' \in [Bundle -> {"none", "failed", "open", "final", "closed"}]
  BY <1>3 DEF TypeOK, Move
<1>8. TypeOK' BY <1>3, <1>5, <1>6, <1>7 DEF TypeOK, waits, filling, linking
<1>9. ExtractCounts' /\ ChildCounts' BY <1>2, <1>3, QuietKeepsCounts DEF Waited
<1>10. Stages' BY <1>3 DEF Stages, Move, TypeOK, filling, linking
<1>11. Barriers' BY <1>3 DEF Barriers, Waited, waits, linking
<1> QED BY <1>5, <1>8, <1>9, <1>10, <1>11

\* Close takes one storage.
LEMMA CloseOneKeepsInv == ASSUME Inv, CloseOne PROVE Inv'
<1> USE DEF Inv
<1>1. PICK b \in Bundle : /\ link[b] = "sending"
                          /\ storage' = Move(storage, b, "closed") /\ link' = Move(link, b, "gone")
                          /\ Fine \/ (FaultIn("closer", b) /\ UNCHANGED <<err, result>>)
  BY DEF CloseOne
<1>2. \A p \in Bundle : link'[p] = IF p = b THEN "gone" ELSE link[p]
  BY <1>1 DEF Move, TypeOK
<1>3. \A p \in Bundle : storage'[p] = IF p = b THEN "closed" ELSE storage[p]
  BY <1>1 DEF Move, TypeOK
<1>4. UNCHANGED <<main, waits, filling, linked, dropped, export, crashed>> /\ main = "close"
  BY DEF CloseOne
<1>11. /\ ErrorsKept' /\ faults' \subseteq Kinds \X Bundle
       /\ err' \in Kinds \union {NoError} /\ result' \in Kinds \union {NoError}
  BY <1>1, <1>4, LateErrorsKept DEF Waited, Kinds
<1>5. link' \in [Bundle -> {"none", "waiting", "linking", "sending", "gone"}]
      /\ storage' \in [Bundle -> {"none", "failed", "open", "final", "closed"}]
  BY <1>1 DEF Move, TypeOK
<1>6. TypeOK' BY <1>4, <1>5, <1>11 DEF TypeOK, waits, filling
<1>7. ExtractCounts' BY <1>4 DEF ExtractCounts, Owed, OwnDone, waits, filling
<1>8. ChildCounts'
  <2>1. Pending' = Pending BY <1>1, <1>2, <1>4 DEF Pending
  <2> QED BY <2>1, <1>4 DEF ChildCounts, waits
<1>9. Stages' BY <1>1, <1>2, <1>3, <1>4 DEF Stages, filling
<1>10. Barriers' BY <1>1, <1>2, <1>4 DEF Barriers, Waited, waits
<1> QED BY <1>6, <1>7, <1>8, <1>9, <1>10, <1>11

\* The two returns of Export change nothing but the caller.
LEMMA ReturnsKeepInv == ASSUME Inv, ExportDone \/ CloseReturns PROVE Inv'
<1> USE DEF Inv
<1>1. /\ main \in {"export", "close"} /\ main' \in {"close", "ended"}
      /\ UNCHANGED <<waits, storage, filling, linking, dropped, export, crashed>>
  BY DEF ExportDone, CloseReturns
<1>6. /\ ErrorsKept' /\ faults' \subseteq Kinds \X Bundle
      /\ err' \in Kinds \union {NoError} /\ result' \in Kinds \union {NoError}
  <2>1. Waited /\ Waited' BY <1>1 DEF Waited
  <2>2. CASE UNCHANGED errors BY <2>1, <2>2 DEF errors, ErrorsKept, TypeOK
  <2>3. CASE \E r \in RootSet : ExportFault("close", r)
    <3>1. RootSet \subseteq Bundle BY StoreContextAssumption DEF RootSet
    <3> QED BY <2>1, <2>3, <3>1, LateErrorsKept DEF Kinds
  <2> QED BY <2>2, <2>3 DEF ExportDone, CloseReturns, Fine
<1>2. TypeOK' BY <1>1, <1>6 DEF TypeOK, waits, filling, linking
<1>3. ExtractCounts' /\ ChildCounts' BY <1>1, QuietKeepsCounts
<1>4. Stages' BY <1>1 DEF Stages, filling, linking
<1>5. Barriers' BY <1>1 DEF Barriers, Waited, waits, linking
<1> QED BY <1>2, <1>3, <1>4, <1>5, <1>6

\* Nothing happens.
LEMMA StutterKeepsInv == ASSUME Inv, UNCHANGED vars PROVE Inv'
<1> USE DEF Inv
<1>1. UNCHANGED <<main, waits, errors, storage, filling, linking, dropped, export, crashed>> BY DEF vars
<1>2. TypeOK' BY <1>1 DEF TypeOK, waits, errors, filling, linking
<1>3. ExtractCounts' /\ ChildCounts'
  BY <1>1, CountsStay DEF waits, filling, linking
<1>4. Stages' BY <1>1 DEF Stages, filling, linking
<1>5. Barriers' BY <1>1 DEF Barriers, Waited, waits, linking
<1>6. ErrorsKept' BY <1>1 DEF ErrorsKept, Waited, errors
<1> QED BY <1>2, <1>3, <1>4, <1>5, <1>6

\* The caller counts itself, and nobody else does anything yet.
LEMMA Initially == Init => Inv
<1> SUFFICES ASSUME Init PROVE Inv OBVIOUS
<1> USE DEF Init
<1>1. TypeOK BY DEF TypeOK, NoError, Amount
<1>2. ExtractCounts
  <2>1. Owed = {} BY DEF Owed, Running
  <2> QED BY <2>1, FS_EmptySet DEF ExtractCounts, OwnDone
<1>3. ChildCounts
  <2>1. Pending = {} BY DEF Pending, Busy
  <2> QED BY <2>1, FS_EmptySet DEF ChildCounts
<1>4. Stages BY DEF Stages
<1>5. Barriers BY DEF Barriers, Waited, Busy
<1>6. ErrorsKept BY DEF ErrorsKept, Waited
<1> QED BY <1>1, <1>2, <1>3, <1>4, <1>5, <1>6 DEF Inv

\* Each step keeps the invariant.
LEMMA StepKeepsInv == Inv /\ [Next]_vars => Inv'
<1> SUFFICES ASSUME Inv, [Next]_vars PROVE Inv' OBVIOUS
<1>1. CASE Main
  BY <1>1, StoreRootKeepsInv, WaitDoneKeepsInv, WaitExtractKeepsInv, WaitChildKeepsInv,
     ReturnsKeepInv, CloseOneKeepsInv DEF Main
<1>2. ASSUME NEW b \in Bundle, Goroutine(b) PROVE Inv'
  BY <1>2, AddEntitiesKeepsInv, AddFieldKeepsInv, StoreChildKeepsInv, AbandonKeepsInv,
     StartLinkingKeepsInv, LeaveKeepsInv, FinishKeepsInv, StartAddingKeepsInv,
     AddChildrenKeepsInv, FinalizeStorageKeepsInv, ExportKeepsInv DEF Goroutine
<1>3. CASE UNCHANGED vars BY <1>3, StutterKeepsInv
<1> QED BY <1>1, <1>2, <1>3 DEF Next, Ended

-------------------------------------------------------------------------------
(* The theorems *)

\* The counts, the stages and the barriers hold in every reachable state.
THEOREM InductiveInvariant == Spec => []Inv
<1>1. Init => Inv BY Initially
<1>2. Inv /\ [Next]_vars => Inv' BY StepKeepsInv
<1> QED BY <1>1, <1>2, PTL DEF Spec

\* The variables have their types; no WaitGroup is ever negative.
THEOREM TypeCorrect == Spec => []TypeOK
<1>1. Inv => TypeOK BY DEF Inv
<1> QED BY <1>1, InductiveInvariant, PTL

\* For any tree, any fields and any failures: when Wait returns nobody writes
\* and nobody will, and nobody writes to a finalised storage.
THEOREM NobodyWritesAfterWait == Spec => []NoWriterAfterWait
<1>1. Inv => NoWriterAfterWait BY InvSuffices
<1> QED BY <1>1, InductiveInvariant, PTL

\* Memory.Add needs no lock.
THEOREM AddAlwaysExclusive == Spec => []AddIsExclusive
<1>1. Inv => AddIsExclusive BY InvSuffices
<1> QED BY <1>1, InductiveInvariant, PTL

\* When Export returns nil no call can have failed but the count of onFinish,
\* Finalize, and the closing of a storage by Close; and those that answered
\* ErrNoEntity, which nobody reports.
THEOREM OtherErrorsReturned == Spec => []OtherErrorsAreReturned
<1>1. Inv => OtherErrorsAreReturned BY InvSuffices
<1> QED BY <1>1, InductiveInvariant, PTL

\* extractWait is raised by goroutines it counts, and childAddWait by
\* goroutines extractWait counts.
LEMMA RaisedByCounted ==
  ASSUME Inv, [Next]_vars
  PROVE  /\ extractWait = 0 => extractWait' = 0
         /\ main \notin {"storing", "extract"} => childAddWait' =< childAddWait
<1> USE DEF Inv
<1>1. main \notin {"storing", "extract"} => extractWait = 0 BY DEF Barriers
<1>2. ASSUME extractWait = 0
      PROVE  extractWait' = 0 /\ childAddWait' =< childAddWait
  <2>1. main # "storing" /\ \A b \in Bundle : task[b] \notin Running /\ fieldsLeft[b] = 0
    BY <1>2, QuietWhenZero
  <2>2. \A b \in Bundle : task[b] # "entities" /\ task[b] # "children" /\ task[b] # "leave"
                          /\ ~(fieldsLeft[b] > 0)
    BY <2>1 DEF Running
  <2>3. CASE Main
    BY <2>1, <2>3, <1>2 DEF Main, StoreRoot, WaitDone, WaitExtract, WaitChild, ExportDone, CloseOne,
       CloseReturns, waits, TypeOK
  <2>4. ASSUME NEW b \in Bundle, Goroutine(b) PROVE extractWait' = 0 /\ childAddWait' =< childAddWait
    BY <2>2, <2>4, <1>2 DEF Goroutine, AddEntities, AddField, StoreChild, Abandon, StartLinking, Leave,
       Finish, StartAdding, AddChildren, FinalizeStorage, BeginExport, LoadEntities, CloseRoot,
       waits, TypeOK
  <2>5. CASE UNCHANGED vars BY <2>5, <1>2 DEF vars, waits, TypeOK
  <2> QED BY <2>3, <2>4, <2>5 DEF Next, Ended
<1> QED BY <1>1, <1>2

\* No WaitGroup is raised after it has let a waiter pass.
THEOREM WaitGroupsUsedOnce == Spec => WaitGroupsNotReused
<1>1. Inv /\ [Next]_vars =>
        [/\ extractWait = 0 => extractWait' = 0
         /\ main \notin {"storing", "extract"} => childAddWait' =< childAddWait]_vars
  BY RaisedByCounted
<1> QED BY <1>1, InductiveInvariant, PTL DEF Spec, WaitGroupsNotReused


-------------------------------------------------------------------------------
(* That Wait means complete *)

Late == LateKinds \union {"export", "close"}
OnlyLate == \A f \in faults : f[1] \in Late

\* While no call has failed before Wait, what a goroutine leaves behind is
\* complete: its entities, the storages of its children, and these in itself.
Filled(b) ==
    /\ storage[b] # "failed"
    /\ task[b] \in {"children", "leave", "finish", "done"} => added[b] = "all"
    /\ task[b] \in {"leave", "finish", "done"} =>
         link[b] # "none" /\ \A c \in Kids(b) : storage[c] # "none"
    /\ link[b] \in {"linking", "sending", "gone"} => \A c \in Kids(b) : linked[c] \in {Busy, "all"}

Complete ==
    /\ \A b \in Bundle : storage[b] # "none" => task[b] # "none"
    /\ main # "storing" => \A r \in RootSet : storage[r] # "none"
    /\ \A b \in Bundle : export[b] # "none" => b \in RootSet /\ OnlyLate
    /\ OnlyLate => \A b \in Bundle : Filled(b)

\* The extraction and the linking are over, and nothing went wrong in them.
Over == OnlyLate /\ main # "storing" /\ extractWait = 0 /\ childAddWait = 0

\* That is so when a root is exported.
LEMMA ExportComesLast ==
  ASSUME Inv, Complete, \E r \in RootSet : export[r] # "none" PROVE Over
<1>1. RootSet \subseteq Bundle BY StoreContextAssumption DEF RootSet
<1>2. Waited /\ OnlyLate BY <1>1 DEF Inv, ErrorsKept, Complete
<1> QED BY <1>2 DEF Over, Inv, Barriers, Waited

\* The roots are stored, and with each bundle its children; so all are.
LEMMA AllAreStored ==
  ASSUME Inv, Complete, Over
  PROVE  \A b \in Bundle : fieldsLeft[b] = 0 /\ task[b] \in {"finish", "done"} /\ Filled(b)
<1> USE DEF Inv
<1>1. RootSet \subseteq Bundle BY StoreContextAssumption DEF RootSet
<1>2. main # "storing" /\ \A c \in Bundle : task[c] \notin Running /\ fieldsLeft[c] = 0
  BY QuietWhenZero DEF Over
<1>3. \A c \in Bundle : Filled(c) BY DEF Complete, Over
<1> DEFINE tree == {c \in Bundle : storage[c] # "none"}
<1>4. \A c \in tree : task[c] \in {"finish", "done"}
  BY <1>2 DEF Complete, TypeOK, Running
<1>5. \A c \in tree : Kids(c) \subseteq tree BY <1>3, <1>4, KidsAreBundles DEF Filled
<1>6. RootSet \subseteq tree BY <1>1, <1>2 DEF Complete
<1>7. tree = Bundle
  <2> HIDE DEF tree
  <2>1. tree \in SUBSET Bundle BY DEF tree
  <2> QED BY <1>5, <1>6, <2>1, TreeAssumption
<1>8. \A c \in Bundle : task[c] \in {"finish", "done"} BY <1>4, <1>7
<1> QED BY <1>2, <1>3, <1>8

\* What they leave behind is all there is, and it is with their parents.
LEMMA AllAreFilled ==
  ASSUME Inv, Complete, Over, NEW b \in Bundle
  PROVE  /\ added[b] = "all" /\ fieldsLeft[b] = 0
         /\ b \notin RootSet => linked[b] = "all"
<1> USE DEF Inv
<1>1. added[b] = "all" /\ fieldsLeft[b] = 0 BY AllAreStored DEF Filled
<1>2. ASSUME b \notin RootSet PROVE linked[b] = "all"
  <2> DEFINE parents == {p \in Bundle : b \in Kids(p)}
  <2>1. Cardinality(parents) = 1 BY <1>2, StoreContextAssumption
  <2>2. IsFiniteSet(parents) BY FS_Subset, StoreContextAssumption
  <2>3. PICK p : parents = {p} BY <2>1, <2>2, FS_Singleton
  <2>4. p \in Bundle /\ b \in Kids(p) BY <2>3
  <2>5. link[p] # "none" BY <2>4, AllAreStored DEF Filled
  <2>6. link[p] # "waiting" /\ linked[b] # Busy BY <2>4, LinkedWhenZero DEF Over
  <2>7. link[p] \in {"linking", "sending", "gone"} BY <2>4, <2>5, <2>6 DEF TypeOK
  <2> QED BY <2>4, <2>6, <2>7, AllAreStored DEF Filled
<1> QED BY <1>1, <1>2

\* What is left behind by all bundles is what Wait promises.
LEMMA CompleteSuffices == Inv /\ Complete => WaitMeansComplete
BY ExportComesLast, AllAreFilled DEF WaitMeansComplete

\* A call that fails before Wait makes the promise void.
LEMMA FaultsGrow ==
  /\ \A kind, b : Reported(kind, b) /\ kind \notin Late => ~OnlyLate'
  /\ \A kind, b : Reported(kind, b) /\ OnlyLate' => OnlyLate
  /\ \A kind \in Late : \A r : FaultIn(kind, r) => (OnlyLate' <=> OnlyLate)
  /\ Fine => (OnlyLate' <=> OnlyLate)
<1>1. ASSUME NEW kind, NEW b, FaultIn(kind, b)
      PROVE  OnlyLate' <=> OnlyLate /\ kind \in Late
  <2>1. faults' = faults \union {<<kind, b>>} /\ <<kind, b>>[1] = kind BY <1>1 DEF FaultIn
  <2>2. \A f : f \in faults' <=> f \in faults \/ f = <<kind, b>> BY <2>1
  <2> QED BY <2>1, <2>2 DEF OnlyLate
<1>2. \A kind, b : Reported(kind, b) => FaultIn(kind, b) BY DEF Reported
<1>4. Fine => (OnlyLate' <=> OnlyLate) BY DEF Fine, errors, OnlyLate
<1> QED BY <1>1, <1>2, <1>4

\* Before the extraction is over no root is exported.
LEMMA NoExportYet ==
  ASSUME Inv, extractWait # 0 \/ childAddWait # 0 PROVE ~Waited /\ \A b \in Bundle : export[b] = "none"
BY DEF Inv, Barriers, ErrorsKept, Waited

\* Store of one bundle leaves behind nothing yet.
LEMMA StoreKeepsComplete ==
  ASSUME Inv, Complete, NEW b \in Bundle, storage[b] = "none", extractWait # 0,
         StoreOpens(b) \/ StoreFails(b),
         UNCHANGED <<main, childAddWait, added, fieldsLeft, finished, linking, dropped, export, crashed>>
  PROVE  Complete'
<1>1. \A c \in Bundle : export'[c] = "none" BY NoExportYet
<1>2. CASE StoreOpens(b)
  <2>1. /\ \A c \in Bundle : storage'[c] = IF c = b THEN "open" ELSE storage[c]
        /\ \A c \in Bundle : task'[c] = IF c = b THEN "entities" ELSE task[c]
        /\ OnlyLate' <=> OnlyLate
    BY <1>2, FaultsGrow DEF StoreOpens, Move, Inv, TypeOK
  <2>2. link[b] = "none" BY DEF Inv, Stages
  <2>3. OnlyLate => \A c \in Bundle : Filled(c)'
    BY <2>1, <2>2, KidsAreBundles DEF Complete, Filled, linking
  <2>4. RootSet \subseteq Bundle BY StoreContextAssumption DEF RootSet
  <2> QED BY <1>1, <2>1, <2>3, <2>4 DEF Complete
<1>3. CASE StoreFails(b)
  <2>1. /\ \A c \in Bundle : storage'[c] = IF c = b THEN "failed" ELSE storage[c]
        /\ \A c \in Bundle : task'[c] = IF c = b THEN "finish" ELSE task[c]
        /\ ~OnlyLate'
    BY <1>3, FaultsGrow DEF StoreFails, Move, Inv, TypeOK, Late, LateKinds
  <2>2. RootSet \subseteq Bundle BY StoreContextAssumption DEF RootSet
  <2> QED BY <1>1, <2>1, <2>2 DEF Complete
<1> QED BY <1>2, <1>3

\* The caller, or a goroutine in stage 3, stores a bundle.
LEMMA StoringKeepsComplete ==
  ASSUME Inv, Complete, StoreRoot \/ \E b \in Bundle : StoreChild(b) PROVE Complete'
<1>1. extractWait # 0 BY StorersCounted DEF StoreRoot, StoreChild, Inv, Running
<1>2. \E c \in Bundle : storage[c] = "none" /\ (StoreOpens(c) \/ StoreFails(c))
  BY StoreContextAssumption DEF StoreRoot, StoreChild, StoreNext
<1> QED BY <1>1, <1>2, StoreKeepsComplete DEF StoreRoot, StoreChild

\* The goroutines of a bundle leave a stage once what it adds is there.
LEMMA FillingKeepsComplete ==
  ASSUME Inv, Complete, NEW b \in Bundle,
         AddEntities(b) \/ AddField(b) \/ Abandon(b) \/ StartLinking(b) \/ Leave(b) \/ Finish(b)
  PROVE  Complete'
<1> USE DEF Inv
<1>1. UNCHANGED <<main, storage, linked, export>>
  BY DEF AddEntities, AddField, Abandon, StartLinking, Leave, Finish, linking
<1>2. CASE AddEntities(b)
  <2>1. extractWait # 0 BY <1>2, StorersCounted DEF AddEntities, Running
  <2>2. \A c \in Bundle : export'[c] = "none" BY <1>1, <2>1, NoExportYet
  <2>3. \A c \in Bundle : task'[c] # "none" <=> task[c] # "none"
    BY <1>2 DEF AddEntities, Move, TypeOK
  <2>4. CASE Fine /\ task' = Move(task, b, "children") /\ added' = [added EXCEPT ![b] = "all"]
    <3>1. \A c \in Bundle : task'[c] = IF c = b THEN "children" ELSE task[c]
      BY <2>4 DEF Move, TypeOK
    <3>2. \A c \in Bundle : added'[c] = IF c = b THEN "all" ELSE added[c] BY <2>4 DEF TypeOK
    <3>3. OnlyLate' <=> OnlyLate BY <2>4, FaultsGrow
    <3>4. UNCHANGED link BY <1>2 DEF AddEntities, linking
    <3>5. OnlyLate' => \A c \in Bundle : Filled(c)'
      BY <1>1, <3>1, <3>2, <3>3, <3>4 DEF Filled, Complete
    <3> QED BY <1>1, <2>2, <2>3, <3>5 DEF Complete
  <2>5. CASE Reported("entities", b)
    <3>1. ~OnlyLate' BY <2>5, FaultsGrow DEF Late, LateKinds
    <3> QED BY <1>1, <2>2, <2>3, <3>1 DEF Complete
  <2> QED BY <1>2, <2>4, <2>5 DEF AddEntities
<1>3. CASE AddField(b)
  <2>1. extractWait # 0 BY <1>3, QuietWhenZero DEF AddField, TypeOK
  <2>2. \A c \in Bundle : export'[c] = "none" BY <1>1, <2>1, NoExportYet
  <2>3. OnlyLate' => OnlyLate BY <1>3, FaultsGrow DEF AddField
  <2>4. UNCHANGED <<task, added, link>> BY <1>3 DEF AddField, linking
  <2>5. OnlyLate' => \A c \in Bundle : Filled(c)' BY <1>1, <2>3, <2>4 DEF Filled, Complete
  <2> QED BY <1>1, <2>2, <2>4, <2>5 DEF Complete
<1>4. CASE Abandon(b)
  <2>1. ~OnlyLate BY <1>4, KidsAreBundles DEF Abandon, Failed, Complete, Filled
  <2>2. ~OnlyLate' BY <1>4, <2>1 DEF Abandon, errors, OnlyLate
  <2>3. \A c \in Bundle : task'[c] # "none" <=> task[c] # "none"
    BY <1>4 DEF Abandon, Move, TypeOK
  <2> QED BY <1>1, <2>1, <2>2, <2>3 DEF Complete
<1>5. CASE StartLinking(b)
  <2>1. \A c \in Bundle : task'[c] = IF c = b THEN "leave" ELSE task[c]
    BY <1>5 DEF StartLinking, Move, TypeOK
  <2>2. \A c \in Bundle : link'[c] = IF c = b THEN "waiting" ELSE link[c]
    BY <1>5 DEF StartLinking, Move, TypeOK
  <2>3. UNCHANGED <<added, faults>> /\ (OnlyLate' <=> OnlyLate) /\ task[b] = "children"
        /\ \A c \in Kids(b) : storage[c] # "none"
    BY <1>5 DEF StartLinking, errors, OnlyLate, AllStored
  <2>4. OnlyLate' => \A c \in Bundle : Filled(c)'
    BY <1>1, <2>1, <2>2, <2>3 DEF Filled, Complete
  <2> QED BY <1>1, <2>1, <2>3, <2>4 DEF Complete
<1>6. CASE Leave(b) \/ Finish(b)
  <2>1. \A c \in Bundle : task'[c] # task[c] =>
          task[c] \in {"leave", "finish"} /\ task'[c] \in {"finish", "done"}
    BY <1>6 DEF Leave, Finish, Move, TypeOK
  <2>2. UNCHANGED <<added, link>> /\ (OnlyLate' <=> OnlyLate)
    <3>1. Fine \/ Reported("count", b) BY <1>6 DEF Leave, Finish, Fine
    <3>2. "count" \in Late BY DEF Late, LateKinds
    <3> QED BY <1>6, <3>1, <3>2, FaultsGrow DEF Leave, Finish, linking, Reported
  <2>3. OnlyLate' => \A c \in Bundle : Filled(c)' BY <1>1, <2>1, <2>2 DEF Filled, Complete
  <2> QED BY <1>1, <2>1, <2>2, <2>3 DEF Complete
<1> QED BY <1>2, <1>3, <1>4, <1>5, <1>6

\* Stage 4 adds children whose own extraction is over.
LEMMA LinkingKeepsComplete ==
  ASSUME Inv, Complete, NEW b \in Bundle, StartAdding(b) \/ AddChildren(b) \/ FinalizeStorage(b)
  PROVE  Complete'
<1> USE DEF Inv
<1>1. UNCHANGED <<main, task, added, export>>
  BY DEF StartAdding, AddChildren, FinalizeStorage, filling
<1>2. CASE StartAdding(b)
  <2>1. \A c \in Bundle : link'[c] = IF c = b THEN "linking" ELSE link[c]
    BY <1>2 DEF StartAdding, Move, TypeOK
  <2>2. \A c \in Bundle : linked'[c] = IF c \in Kids(b) THEN Busy ELSE linked[c]
    BY <1>2 DEF StartAdding
  <2>3. UNCHANGED <<faults, storage>> /\ (OnlyLate' <=> OnlyLate)
    BY <1>2 DEF StartAdding, errors, OnlyLate
  <2>4. OnlyLate' => \A c \in Bundle : Filled(c)'
    BY <1>1, <2>1, <2>2, <2>3, KidsAreBundles DEF Filled, Complete
  <2> QED BY <1>1, <2>3, <2>4 DEF Complete
<1>3. CASE AddChildren(b)
  <2>1. linked[b] = Busy /\ extractWait = 0 /\ childAddWait # 0
    BY <1>3, LinkedWhenZero DEF AddChildren, Barriers
  <2>2. \A c \in Bundle : export'[c] = "none" BY <1>1, <2>1, NoExportYet
  <2>3. UNCHANGED <<storage, link>> BY <1>3 DEF AddChildren
  <2>4. CASE Reported("child", b)
    <3>1. ~OnlyLate' BY <2>4, FaultsGrow DEF Late, LateKinds
    <3> QED BY <1>1, <2>2, <2>3, <3>1 DEF Complete
  <2>5. CASE Fine /\ linked' = [linked EXCEPT ![b] = added[b]]
    <3>1. OnlyLate' <=> OnlyLate BY <2>5, FaultsGrow
    <3>2. \A c \in Bundle : linked'[c] = IF c = b THEN added[b] ELSE linked[c] BY <2>5 DEF TypeOK
    <3>3. ASSUME OnlyLate, NEW p \in Bundle, b \in Kids(p),
                 link[p] \in {"linking", "sending", "gone"}
          PROVE  added[b] = "all"
      <4>1. task[p] \notin {"none", "entities", "children"} BY <3>3 DEF Stages
      <4>2. task[p] \in {"leave", "finish", "done"} BY <4>1 DEF TypeOK
      <4>3. storage[b] # "none" BY <3>3, <4>2 DEF Complete, Filled
      <4>4. task[b] # "none" BY <4>3 DEF Complete
      <4>5. task[b] \notin Running BY <2>1, QuietWhenZero
      <4>6. task[b] \in {"finish", "done"} BY <4>4, <4>5 DEF Running, TypeOK
      <4> QED BY <3>3, <4>6 DEF Complete, Filled
    <3>4. OnlyLate' => \A c \in Bundle : Filled(c)'
      <4> SUFFICES ASSUME OnlyLate, NEW p \in Bundle PROVE Filled(p)'
        BY <3>1
      <4>1. Filled(p) BY DEF Complete
      <4>2. ASSUME link[p] \in {"linking", "sending", "gone"}, NEW c \in Kids(p)
            PROVE  linked'[c] \in {Busy, "all"}
        BY <4>1, <4>2, <3>2, <3>3, KidsAreBundles DEF Filled
      <4> QED BY <1>1, <2>3, <4>1, <4>2 DEF Filled
    <3> QED BY <1>1, <2>2, <2>3, <3>4 DEF Complete
  <2> QED BY <1>3, <2>4, <2>5 DEF AddChildren
<1>4. CASE FinalizeStorage(b)
  <2>1. OnlyLate' <=> OnlyLate
    BY <1>4, FaultsGrow DEF FinalizeStorage, Reported, Late, LateKinds
  <2>2. \A c \in Bundle : link'[c] = IF c = b THEN "sending" ELSE link[c]
    BY <1>4 DEF FinalizeStorage, Move, TypeOK
  <2>3. link[b] = "linking" /\ UNCHANGED linked BY <1>4 DEF FinalizeStorage
  <2>4. storage' \in {storage, Move(storage, b, "final")} BY <1>4 DEF FinalizeStorage
  <2>5. task[b] # "none" BY <2>3 DEF Stages
  <2>6. \A c \in Bundle : storage'[c] # storage[c] => c = b /\ storage'[c] = "final"
    BY <2>4 DEF Move, TypeOK
  <2>7. OnlyLate' => \A c \in Bundle : Filled(c)'
    BY <1>1, <2>1, <2>2, <2>3, <2>6, KidsAreBundles DEF Filled, Complete
  <2>8. RootSet \subseteq Bundle BY StoreContextAssumption DEF RootSet
  <2>9. \A c \in Bundle : storage[c] # "none" => storage'[c] # "none" BY <2>6
  <2> QED BY <1>1, <2>1, <2>5, <2>6, <2>7, <2>8, <2>9 DEF Complete
<1> QED BY <1>2, <1>3, <1>4

\* Wait, the exporting goroutines and Close complete nothing and undo nothing.
LEMMA ExportingKeepsComplete ==
  ASSUME Inv, Complete,
         WaitDone \/ WaitExtract \/ WaitChild \/ ExportDone \/ CloseOne \/ CloseReturns
         \/ \E r \in Bundle : BeginExport(r) \/ LoadEntities(r) \/ CloseRoot(r)
  PROVE  Complete'
<1> USE DEF Inv
<1>1. UNCHANGED <<task, added, linked>>
  BY DEF WaitDone, WaitExtract, WaitChild, ExportDone, CloseOne, CloseReturns, BeginExport,
         LoadEntities, CloseRoot, filling, linking
<1>2. OnlyLate' <=> OnlyLate
  <2>1. Fine \/ (\E kind \in Late : \E r : FaultIn(kind, r)) \/ UNCHANGED faults
    BY DEF WaitDone, WaitExtract, WaitChild, ExportDone, CloseOne, CloseReturns, BeginExport,
           LoadEntities, CloseRoot, errors, ExportFault, Late, LateKinds
  <2> QED BY <2>1, FaultsGrow DEF OnlyLate
<1>3. ASSUME NEW b \in Bundle, export[b] # "none" PROVE task[b] # "none"
  <2>1. main # "storing" BY <1>3 DEF ErrorsKept, Waited
  <2> QED BY <1>3, <2>1 DEF Complete, Stages
<1>4. ASSUME NEW b \in Bundle, link[b] = "sending" PROVE task[b] # "none" BY <1>4 DEF Stages
<1>5. \A c \in Bundle : storage'[c] # storage[c] => storage'[c] = "closed" /\ task[c] # "none"
  <2>1. CASE UNCHANGED storage BY <2>1
  <2>2. ASSUME NEW b \in Bundle, task[b] # "none", storage' = Move(storage, b, "closed")
        PROVE  \A c \in Bundle : storage'[c] # storage[c] => storage'[c] = "closed" /\ task[c] # "none"
    BY <2>2 DEF Move, TypeOK
  <2>3. CASE \E r \in Bundle : CloseRoot(r) BY <2>2, <2>3, <1>3 DEF CloseRoot
  <2>4. CASE CloseOne BY <2>2, <2>4, <1>4 DEF CloseOne
  <2> QED BY <2>1, <2>3, <2>4 DEF WaitDone, WaitExtract, WaitChild, ExportDone, CloseReturns,
       BeginExport, LoadEntities
<1>6. \A c \in Bundle : link'[c] # link[c] => link[c] = "sending" /\ link'[c] = "gone"
  <2>1. CASE CloseOne BY <2>1 DEF CloseOne, Move, TypeOK
  <2>2. CASE UNCHANGED link BY <2>2
  <2> QED BY <2>1, <2>2 DEF WaitDone, WaitExtract, WaitChild, ExportDone, CloseReturns,
       BeginExport, LoadEntities, CloseRoot, linking
<1>7. OnlyLate' => \A c \in Bundle : Filled(c)'
  BY <1>1, <1>2, <1>5, <1>6, KidsAreBundles DEF Filled, Complete, Stages
<1>8. \A b \in Bundle : storage'[b] # "none" => task'[b] # "none" BY <1>1, <1>5 DEF Complete
<1>9. main' # "storing" => \A r \in RootSet : storage'[r] # "none"
  <2>1. RootSet \subseteq Bundle BY StoreContextAssumption DEF RootSet
  <2>2. main = "storing" /\ main' # "storing" => \A r \in RootSet : storage[r] # "none"
    BY DEF WaitDone, WaitExtract, WaitChild, ExportDone, CloseOne, CloseReturns, BeginExport,
         LoadEntities, CloseRoot, AllStored
  <2> QED BY <2>1, <2>2, <1>5 DEF Complete
<1>10. \A b \in Bundle : export'[b] # "none" => b \in RootSet /\ OnlyLate'
  <2>1. CASE WaitChild
    <3>1. ~Waited BY <2>1 DEF WaitChild, Waited
    <3>2. err = NoError => OnlyLate BY <3>1 DEF ErrorsKept, OnlyLate
    <3> QED BY <2>1, <3>1, <3>2, <1>2 DEF WaitChild, ErrorsKept
  <2>2. ASSUME NEW r \in Bundle, BeginExport(r) \/ LoadEntities(r) \/ CloseRoot(r)
        PROVE  \A b \in Bundle : export'[b] # "none" => b \in RootSet /\ OnlyLate'
    BY <2>2, <1>2 DEF BeginExport, LoadEntities, CloseRoot, Move, TypeOK, Complete
  <2>3. CASE UNCHANGED export BY <2>3, <1>2 DEF Complete
  <2> QED BY <2>1, <2>2, <2>3 DEF WaitDone, WaitExtract, ExportDone, CloseOne, CloseReturns
<1> QED BY <1>7, <1>8, <1>9, <1>10 DEF Complete

\* Nothing is stored yet, and nothing has failed.
LEMMA InitiallyComplete == Init => Complete
BY DEF Init, Complete, Filled

\* Each step keeps what is left behind complete.
LEMMA StepKeepsComplete == Inv /\ Complete /\ [Next]_vars => Complete'
<1> SUFFICES ASSUME Inv, Complete, [Next]_vars PROVE Complete' OBVIOUS
<1>1. CASE Main BY <1>1, StoringKeepsComplete, ExportingKeepsComplete DEF Main
<1>2. ASSUME NEW b \in Bundle, Goroutine(b) PROVE Complete'
  BY <1>2, FillingKeepsComplete, StoringKeepsComplete, LinkingKeepsComplete,
     ExportingKeepsComplete DEF Goroutine
<1>3. CASE UNCHANGED vars
  BY <1>3 DEF vars, waits, errors, filling, linking, Complete, OnlyLate, Filled
<1> QED BY <1>1, <1>2, <1>3 DEF Next, Ended

\* When the first root is exported, however the tree looks, every bundle has its
\* entities, every field was read to the end, and every entity of a child bundle
\* was offered to its parent.  ErrNoEntity may have dropped some on the way.
THEOREM WaitIsComplete == Spec => []WaitMeansComplete
<1>1. Init => Complete BY InitiallyComplete
<1>2. Inv /\ Complete /\ [Next]_vars => Complete' BY StepKeepsComplete
<1>3. Inv /\ Complete => WaitMeansComplete BY CompleteSuffices
<1> QED BY <1>1, <1>2, <1>3, InductiveInvariant, PTL DEF Spec

-------------------------------------------------------------------------------
(* That nothing is closed below a root that is exported *)

\* A storage is closed by the goroutine that exports it, or by Close, which
\* runs when all of these are done.
ClosedLast ==
    /\ \A b \in Bundle : export[b] \notin {"none", "closed"} => main = "export"
    /\ \A b \in Bundle : storage[b] = "closed" => main \in {"close", "ended"} \/ export[b] = "closed"

\* Nothing is open or closed yet.
LEMMA InitiallyClosedLast == Init => ClosedLast
BY DEF Init, ClosedLast

\* As long as nothing is exported nothing is closed.
LEMMA ExtractingKeepsClosedLast ==
  ASSUME Inv, ClosedLast, UNCHANGED <<main, export>>,
         \A c \in Bundle : storage'[c] = "closed" => storage[c] = "closed"
  PROVE  ClosedLast'
BY DEF ClosedLast

\* Wait, the exporting goroutines and Close.
LEMMA ExportingKeepsClosedLast ==
  ASSUME Inv, Complete, ClosedLast,
         WaitDone \/ WaitExtract \/ WaitChild \/ ExportDone \/ CloseOne \/ CloseReturns
         \/ \E r \in Bundle : BeginExport(r) \/ LoadEntities(r) \/ CloseRoot(r)
  PROVE  ClosedLast'
<1> USE DEF Inv
<1>1. ~Waited => \A b \in Bundle : export[b] = "none" /\ storage[b] # "closed"
  BY DEF ErrorsKept, ClosedLast, Waited
<1>2. CASE WaitDone \/ WaitExtract
  BY <1>1, <1>2 DEF WaitDone, WaitExtract, Waited, ClosedLast
<1>3. CASE WaitChild
  <2>1. ~Waited /\ storage' = storage BY <1>3 DEF WaitChild, Waited
  <2>2. main' = "export" \/ export' = export BY <1>3 DEF WaitChild
  <2> QED BY <1>1, <2>1, <2>2 DEF ClosedLast
<1>4. CASE ExportDone
  <2>1. \A b \in Bundle : export[b] \in {"none", "closed"}
    BY <1>4 DEF ExportDone, Exported, Complete
  <2> QED BY <1>4, <2>1 DEF ExportDone, ClosedLast
<1>5. CASE CloseOne \/ CloseReturns
  BY <1>5 DEF CloseOne, CloseReturns, ClosedLast
<1>6. ASSUME NEW r \in Bundle, BeginExport(r) \/ LoadEntities(r) \/ CloseRoot(r) PROVE ClosedLast'
  <2>1. main = "export" /\ main' = main BY <1>6 DEF BeginExport, LoadEntities, CloseRoot, ClosedLast
  <2>2. CASE CloseRoot(r)
    BY <2>1, <2>2 DEF CloseRoot, ClosedLast, Move, TypeOK
  <2>3. CASE BeginExport(r) \/ LoadEntities(r)
    <3>1. storage' = storage /\ export[r] \in {"begin", "loading"}
      BY <2>3 DEF BeginExport, LoadEntities
    <3>2. \A b \in Bundle : b # r => export'[b] = export[b]
      BY <2>3 DEF BeginExport, LoadEntities, Move, TypeOK
    <3> QED BY <2>1, <3>1, <3>2 DEF ClosedLast
  <2> QED BY <1>6, <2>2, <2>3
<1> QED BY <1>2, <1>3, <1>4, <1>5, <1>6

\* Every step keeps it.
LEMMA StepKeepsClosedLast == Inv /\ Complete /\ ClosedLast /\ [Next]_vars => ClosedLast'
<1> SUFFICES ASSUME Inv, Complete, ClosedLast, [Next]_vars PROVE ClosedLast' OBVIOUS
<1>1. ASSUME NEW bundles, StoreNext(bundles)
      PROVE  \A c \in Bundle : storage'[c] = "closed" => storage[c] = "closed"
  BY <1>1 DEF StoreNext, StoreOpens, StoreFails, Move, Inv, TypeOK
<1>2. CASE StoreRoot BY <1>1, <1>2, ExtractingKeepsClosedLast DEF StoreRoot
<1>3. CASE Main /\ ~StoreRoot BY <1>3, ExportingKeepsClosedLast DEF Main
<1>4. ASSUME NEW b \in Bundle, Goroutine(b) PROVE ClosedLast'
  <2>1. CASE StoreChild(b) BY <1>1, <2>1, ExtractingKeepsClosedLast DEF StoreChild
  <2>2. CASE FinalizeStorage(b)
    <3>1. \A c \in Bundle : storage'[c] = "closed" => storage[c] = "closed"
      BY <2>2 DEF FinalizeStorage, Move, Inv, TypeOK
    <3> QED BY <2>2, <3>1, ExtractingKeepsClosedLast DEF FinalizeStorage
  <2>3. CASE BeginExport(b) \/ LoadEntities(b) \/ CloseRoot(b) BY <2>3, ExportingKeepsClosedLast
  <2>4. CASE UNCHANGED <<main, export, storage>> BY <2>4, ExtractingKeepsClosedLast
  <2> QED BY <1>4, <2>1, <2>2, <2>3, <2>4 DEF Goroutine, AddEntities, AddField, Abandon, StartLinking,
          Leave, Finish, StartAdding, AddChildren
<1>5. CASE UNCHANGED vars BY <1>5, ExtractingKeepsClosedLast DEF vars
<1> QED BY <1>2, <1>3, <1>4, <1>5 DEF Next, Ended

-------------------------------------------------------------------------------
(* The storages below a root *)

\* No other root is below a root: roots have no parent.
LEMMA NoRootBelow ==
  ASSUME NEW r \in RootSet, NEW b \in Below(r)
  PROVE  b \in Bundle /\ (b = r \/ b \notin RootSet)
<1> DEFINE tree == {r} \union (Bundle \ RootSet)
<1>1. tree \in SUBSET Bundle BY StoreContextAssumption DEF RootSet
<1>2. \A c \in tree : Kids(c) \subseteq tree
  <2> SUFFICES ASSUME NEW c \in tree, NEW k \in Kids(c) PROVE k \in Bundle \ RootSet OBVIOUS
  <2> QED BY <1>1, KidsAreBundles, RootsAreNoKids
<1>3. b \in tree BY <1>1, <1>2 DEF Below
<1> QED BY <1>1, <1>3

\* While a root is loaded and handed to the exporter, the storages of all the
\* bundles below it, however deep, are open (Disk.Load, CloseRoot and Close).
THEOREM LoadingFindsOpenStorages == Spec => []LoadedStoragesOpen
<1>1. Init => Complete /\ ClosedLast BY InitiallyComplete, InitiallyClosedLast
<1>2. Inv /\ Complete /\ ClosedLast /\ [Next]_vars => Complete' /\ ClosedLast'
  BY StepKeepsComplete, StepKeepsClosedLast
<1>3. Inv /\ Complete /\ ClosedLast => LoadedStoragesOpen
  <2> SUFFICES ASSUME Inv, Complete, ClosedLast, NEW r \in RootSet, export[r] = "loading",
                      NEW b \in Below(r)
               PROVE  storage[b] \in {"open", "final"}
    BY DEF LoadedStoragesOpen
  <2>1. r \in Bundle BY StoreContextAssumption DEF RootSet
  <2>2. b \in Bundle /\ (b = r \/ b \notin RootSet) BY NoRootBelow
  <2>3. main = "export" BY <2>1 DEF ClosedLast
  <2>4. export[b] # "closed" BY <2>2 DEF Complete
  <2>5. storage[b] # "closed" BY <2>2, <2>3, <2>4 DEF ClosedLast
  <2>6. Over BY ExportComesLast
  <2>7. storage[b] \notin {"none", "failed"} BY <2>2, <2>6, AllAreStored DEF Inv, Stages, Filled
  <2> QED BY <2>2, <2>5, <2>7 DEF Inv, TypeOK
<1> QED BY <1>1, <1>2, <1>3, InductiveInvariant, PTL DEF Spec

-------------------------------------------------------------------------------
(* That Export keeps what TreeExport promises *)

\* What a bundle has is not lost: nothing was added to it before its stage 1,
\* nor from it before its parent's stage 4; and a root is not handed over
\* before its goroutine has loaded it.
Fresh ==
    /\ \A b \in Bundle : task[b] \in {"none", "entities"} => added[b] = "nothing"
    /\ \A c \in Bundle : linked[c] # "nothing" =>
         \E p \in Bundle : c \in Kids(p) /\ link[p] \notin {"none", "waiting"}
    /\ \A r \in Bundle : export[r] \in {"none", "begin", "loading"} => <<"export", r>> \notin faults

\* A call that fails is booked under its own kind and bundle.
LEMMA FaultsBooked ==
  /\ \A kind, b : FaultIn(kind, b) =>
       \A k, c : <<k, c>> \in faults' <=> <<k, c>> \in faults \/ (k = kind /\ c = b)
  /\ \A kind, b : Reported(kind, b) => FaultIn(kind, b)
  /\ \A kind, b : ExportFault(kind, b) => FaultIn(kind, b)
BY DEF FaultIn, Reported, ExportFault

\* Nothing was added yet, and nothing has failed.
LEMMA InitiallyFresh == Init => Fresh
BY DEF Init, Fresh

\* Storing and filling.
LEMMA FillingKeepsFresh ==
  ASSUME Inv, Fresh, NEW b \in Bundle,
         AddEntities(b) \/ AddField(b) \/ Abandon(b) \/ StartLinking(b) \/ Leave(b) \/ Finish(b)
  PROVE  Fresh'
<1> USE DEF Inv
<1>1. UNCHANGED <<linked, export>>
  BY DEF AddEntities, AddField, Abandon, StartLinking, Leave, Finish, linking
<1>2. \A r : <<"export", r>> \in faults' <=> <<"export", r>> \in faults
  BY FaultsBooked DEF AddEntities, AddField, Abandon, StartLinking, Leave, Finish, errors, Fine
<1>3. \A p \in Bundle : link'[p] # link[p] => link[p] = "none"
  <2>1. CASE StartLinking(b) BY <2>1 DEF StartLinking, Move, TypeOK, Stages
  <2> QED BY <2>1 DEF AddEntities, AddField, Abandon, Leave, Finish, linking
<1>4. \A c \in Bundle : task'[c] \in {"none", "entities"} =>
        task[c] \in {"none", "entities"} /\ added'[c] = added[c]
  <2>1. CASE AddEntities(b) BY <2>1 DEF AddEntities, Move, TypeOK
  <2>2. CASE ~AddEntities(b)
    BY <2>2 DEF AddField, Abandon, StartLinking, Leave, Finish, Move, TypeOK
  <2> QED BY <2>1, <2>2
<1> QED BY <1>1, <1>2, <1>3, <1>4 DEF Fresh

\* Storing a bundle.
LEMMA StoringKeepsFresh ==
  ASSUME Inv, Fresh, StoreRoot \/ \E b \in Bundle : StoreChild(b) PROVE Fresh'
<1> USE DEF Inv
<1>1. PICK b \in Bundle : storage[b] = "none" /\ (StoreOpens(b) \/ StoreFails(b))
  BY StoreContextAssumption DEF StoreRoot, StoreChild, StoreNext
<1>2. UNCHANGED <<linking, export, added>> BY DEF StoreRoot, StoreChild
<1>3. \A r : <<"export", r>> \in faults' <=> <<"export", r>> \in faults
  BY <1>1, FaultsBooked DEF StoreOpens, StoreFails, errors, Fine
<1>4. task[b] = "none" BY <1>1 DEF Stages
<1>5. \A c \in Bundle : c # b => task'[c] = task[c]
  BY <1>1 DEF StoreOpens, StoreFails, Move, TypeOK
<1> QED BY <1>2, <1>3, <1>4, <1>5 DEF Fresh, linking

\* Linking.
LEMMA LinkingKeepsFresh ==
  ASSUME Inv, Fresh, NEW b \in Bundle, StartAdding(b) \/ AddChildren(b) \/ FinalizeStorage(b)
  PROVE  Fresh'
<1> USE DEF Inv
<1>1. UNCHANGED <<task, added, export>>
  BY DEF StartAdding, AddChildren, FinalizeStorage, filling
<1>2. \A r : <<"export", r>> \in faults' <=> <<"export", r>> \in faults
  BY FaultsBooked DEF StartAdding, AddChildren, FinalizeStorage, errors, Fine
<1>3. \A p \in Bundle : link'[p] # link[p] => link'[p] \in {"linking", "sending"}
  BY DEF StartAdding, AddChildren, FinalizeStorage, Move, TypeOK
<1>4. ASSUME NEW c \in Bundle, linked'[c] # "nothing"
      PROVE  \E p \in Bundle : c \in Kids(p) /\ link'[p] \notin {"none", "waiting"}
  <2>1. CASE linked[c] # "nothing" BY <2>1, <1>3 DEF Fresh
  <2>2. CASE linked[c] = "nothing"
    <3>1. StartAdding(b) /\ c \in Kids(b)
      <4>1. ~AddChildren(b)
        BY <2>2, <1>4 DEF AddChildren, TypeOK, Busy
      <4> QED BY <2>2, <1>4, <4>1 DEF StartAdding, FinalizeStorage
    <3>2. link'[b] = "linking" BY <3>1 DEF StartAdding, Move, TypeOK
    <3> QED BY <3>1, <3>2
  <2> QED BY <2>1, <2>2
<1> QED BY <1>1, <1>2, <1>4 DEF Fresh

\* Exporting.
LEMMA ExportingKeepsFresh ==
  ASSUME Inv, Fresh,
         WaitDone \/ WaitExtract \/ WaitChild \/ ExportDone \/ CloseOne \/ CloseReturns
         \/ \E r \in Bundle : BeginExport(r) \/ LoadEntities(r) \/ CloseRoot(r)
  PROVE  Fresh'
<1> USE DEF Inv
<1>1. UNCHANGED <<task, added, linked>>
  BY DEF WaitDone, WaitExtract, WaitChild, ExportDone, CloseOne, CloseReturns, BeginExport,
         LoadEntities, CloseRoot, filling, linking
<1>2. \A p \in Bundle : link'[p] # link[p] => link'[p] = "gone"
  <2>1. CASE CloseOne BY <2>1 DEF CloseOne, Move, TypeOK
  <2>2. CASE UNCHANGED link BY <2>2
  <2> QED BY <2>1, <2>2 DEF WaitDone, WaitExtract, WaitChild, ExportDone, CloseReturns,
       BeginExport, LoadEntities, CloseRoot, linking
<1>3. \A r \in Bundle : export'[r] \in {"none", "begin", "loading"} => <<"export", r>> \notin faults'
  <2>1. CASE WaitChild BY <2>1 DEF WaitChild, Fresh, ErrorsKept, Waited
  <2>2. ASSUME NEW q \in Bundle, BeginExport(q) \/ LoadEntities(q) \/ CloseRoot(q)
        PROVE  \A r \in Bundle : export'[r] \in {"none", "begin", "loading"} =>
                                   <<"export", r>> \notin faults'
    <3>1. \A r \in Bundle : r # q =>
            export'[r] = export[r] /\ (<<"export", r>> \in faults' <=> <<"export", r>> \in faults)
      BY <2>2, FaultsBooked DEF BeginExport, LoadEntities, CloseRoot, Move, TypeOK, errors, Fine
    <3>2. export'[q] \in {"none", "begin", "loading"} =>
            export[q] = "begin" /\ UNCHANGED faults
      BY <2>2 DEF BeginExport, LoadEntities, CloseRoot, Move, TypeOK, errors, Fine
    <3> QED BY <3>1, <3>2 DEF Fresh
  <2>3. CASE WaitDone \/ WaitExtract \/ ExportDone \/ CloseOne \/ CloseReturns
    <3>1. UNCHANGED export BY <2>3 DEF WaitDone, WaitExtract, ExportDone, CloseOne, CloseReturns
    <3>2. \A r : <<"export", r>> \in faults' <=> <<"export", r>> \in faults
      BY <2>3, FaultsBooked DEF WaitDone, WaitExtract, ExportDone, CloseOne, CloseReturns, errors, Fine
    <3> QED BY <3>1, <3>2 DEF Fresh
  <2> QED BY <2>1, <2>2, <2>3
<1> QED BY <1>1, <1>2, <1>3 DEF Fresh

\* Every step keeps it.
LEMMA StepKeepsFresh == Inv /\ Fresh /\ [Next]_vars => Fresh'
<1> SUFFICES ASSUME Inv, Fresh, [Next]_vars PROVE Fresh' OBVIOUS
<1>1. CASE Main BY <1>1, StoringKeepsFresh, ExportingKeepsFresh DEF Main
<1>2. ASSUME NEW b \in Bundle, Goroutine(b) PROVE Fresh'
  BY <1>2, FillingKeepsFresh, StoringKeepsFresh, LinkingKeepsFresh, ExportingKeepsFresh DEF Goroutine
<1>3. CASE UNCHANGED vars
  BY <1>3 DEF vars, errors, filling, linking, Fresh
<1> QED BY <1>1, <1>2, <1>3 DEF Next, Ended

\* The calls whose failure keeps a bundle from being full.
Filler == {"entities", "field", "child"}

\* Only entities, fields, children and failures of these make a bundle full.
LEMMA FullStays ==
  ASSUME NEW c \in Bundle, added'[c] = added[c], fieldsLeft'[c] = fieldsLeft[c],
         linked'[c] = linked[c],
         \A k \in Filler : <<k, c>> \in faults' <=> <<k, c>> \in faults
  PROVE  Full(c)' <=> Full(c)
BY DEF Full, Filler

\* A step that fills at most one bundle, one that was not full, fills it, lossy
\* or not, or is a stutter.
LEMMA FillOrStutter ==
  ASSUME ~Waited, ~Waited', NEW b \in Bundle, ~Full(b),
         \A c \in Bundle : c # b => (Full(c)' <=> Full(c)) /\ (Lossy(c)' <=> Lossy(c)),
         UNCHANGED <<HandedRoots, Answer>>
  PROVE  [T!Next]_(T!vars)
<1>1. Phase = "filling" /\ Phase' = "filling" BY DEF Phase
<1>2. CASE Full(b)'
  <2>1. FullBundles' = FullBundles \union {b} /\ b \notin FullBundles BY <1>2 DEF FullBundles
  <2>3. LossyBundles' \in {LossyBundles, LossyBundles \union {b}}
    <3>1. \A c \in Bundle : c # b => (c \in LossyBundles' <=> c \in LossyBundles)
      BY DEF LossyBundles, FullBundles
    <3>2. b \notin LossyBundles BY DEF LossyBundles, FullBundles
    <3>3. LossyBundles \subseteq Bundle /\ LossyBundles' \subseteq Bundle BY DEF LossyBundles, FullBundles
    <3>4. CASE b \in LossyBundles' BY <3>1, <3>2, <3>3, <3>4
    <3>5. CASE b \notin LossyBundles' BY <3>1, <3>2, <3>3, <3>5
    <3> QED BY <3>4, <3>5
  <2>2. T!Fill(b) BY <1>1, <2>1, <2>3 DEF T!Fill
  <2> QED BY <2>2 DEF T!Next
<1>3. CASE ~Full(b)'
  <2>1. FullBundles' = FullBundles BY <1>3 DEF FullBundles
  <2>2. LossyBundles' = LossyBundles BY <1>3 DEF LossyBundles, FullBundles
  <2> QED BY <1>1, <2>1, <2>2 DEF T!vars
<1> QED BY <1>2, <1>3

\* Before Wait returns nothing is handed over, and there is no answer.
LEMMA NothingHanded ==
  ASSUME Inv, Inv', ~Waited, ~Waited'
  PROVE  UNCHANGED <<HandedRoots, Answer>>
<1>1. \A r \in Bundle : export[r] = "none" /\ export'[r] = "none" BY DEF Inv, ErrorsKept
<1>2. RootSet \subseteq Bundle BY StoreContextAssumption DEF RootSet
<1>3. HandedRoots = {} /\ HandedRoots' = {} BY <1>1, <1>2 DEF HandedRoots, Handed
<1>4. Answer = "none" /\ Answer' = "none" BY DEF Answer, Waited
<1> QED BY <1>3, <1>4

\* Entities, fields and children: TreeExport fills the bundle, or waits for the
\* rest of it.
LEMMA FillingRefines ==
  ASSUME Inv, Inv', Fresh, NEW b \in Bundle, AddEntities(b) \/ AddField(b) \/ AddChildren(b)
  PROVE  [T!Next]_(T!vars)
<1> USE DEF Inv
<1>1. extractWait # 0 \/ childAddWait # 0
  BY StorersCounted, QuietWhenZero, LinkedWhenZero
     DEF AddEntities, AddField, AddChildren, Running, TypeOK
<1>2. ~Waited /\ ~Waited'
  BY <1>1, NoExportYet DEF AddEntities, AddField, AddChildren, Waited
<1>3. ~Full(b)
  <2>1. CASE AddEntities(b) BY <2>1 DEF AddEntities, Fresh, Full
  <2>2. CASE AddField(b) BY <2>2 DEF AddField, Full, TypeOK
  <2>3. CASE AddChildren(b)
    <3>1. linked[b] = Busy BY <2>3 DEF AddChildren
    <3>2. PICK p \in Bundle : b \in Kids(p) BY <3>1 DEF Fresh, Busy
    <3>3. b \notin RootSet BY <3>2, RootsAreNoKids
    <3> QED BY <3>1, <3>3 DEF Full, Busy
  <2> QED BY <2>1, <2>2, <2>3
<1>4. \A c \in Bundle : c # b => (Full(c)' <=> Full(c)) /\ (Lossy(c)' <=> Lossy(c))
  <2> SUFFICES ASSUME NEW c \in Bundle, c # b
               PROVE (Full(c)' <=> Full(c)) /\ (Lossy(c)' <=> Lossy(c)) OBVIOUS
  <2>1. \A k : <<k, c>> \in faults' <=> <<k, c>> \in faults
    BY FaultsBooked DEF AddEntities, AddField, AddChildren, errors, Fine
  <2>2. added'[c] = added[c] /\ fieldsLeft'[c] = fieldsLeft[c] /\ linked'[c] = linked[c]
    BY DEF AddEntities, AddField, AddChildren, TypeOK, linking, filling
  <2>3. Lossy(c)' <=> Lossy(c)
    <3>1. CASE AddEntities(b) BY <3>1 DEF AddEntities, Lossy
    <3>2. CASE AddField(b) BY <3>2, DropTyped DEF AddField
    <3>3. CASE AddChildren(b) BY <3>3, DropTyped DEF AddChildren
    <3> QED BY <3>1, <3>2, <3>3
  <2> QED BY <2>1, <2>2, <2>3, FullStays
<1>5. UNCHANGED <<HandedRoots, Answer>> BY <1>2, NothingHanded
<1> QED BY <1>2, <1>3, <1>4, <1>5, FillOrStutter

\* The other steps of Store leave every bundle as full, and as lossy, as it is.
LEMMA OthersFillNothing ==
  ASSUME Inv, Fresh, [Next]_vars,
         \A b \in Bundle : ~AddEntities(b) /\ ~AddField(b) /\ ~AddChildren(b)
  PROVE  UNCHANGED <<FullBundles, LossyBundles>>
<1> USE DEF Inv
<1>1. \A c \in Bundle : \A k \in Filler : <<k, c>> \in faults' <=> <<k, c>> \in faults
  <2>1. CASE Main
    BY <2>1, FaultsBooked
       DEF Main, StoreRoot, StoreNext, StoreOpens, StoreFails, WaitDone, WaitExtract, WaitChild,
           ExportDone, CloseOne, CloseReturns, Filler, errors, Fine
  <2>2. ASSUME NEW b \in Bundle, Goroutine(b)
        PROVE  \A c \in Bundle : \A k \in Filler : <<k, c>> \in faults' <=> <<k, c>> \in faults
    BY <2>2, FaultsBooked
       DEF Goroutine, StoreChild, StoreNext, StoreOpens, StoreFails, Abandon, StartLinking, Leave, Finish,
           StartAdding, FinalizeStorage, BeginExport, LoadEntities, CloseRoot, Filler, errors, Fine
  <2>3. CASE UNCHANGED vars BY <2>3 DEF vars, errors
  <2> QED BY <2>1, <2>2, <2>3 DEF Next, Ended
<1>2. UNCHANGED <<added, fieldsLeft>>
  <2>1. CASE Main
    BY <2>1 DEF Main, StoreRoot, WaitDone, WaitExtract, WaitChild, ExportDone, CloseOne, CloseReturns,
         filling
  <2>2. ASSUME NEW b \in Bundle, Goroutine(b) PROVE UNCHANGED <<added, fieldsLeft>>
    BY <2>2 DEF Goroutine, StoreChild, Abandon, StartLinking, Leave, Finish, StartAdding,
         FinalizeStorage, BeginExport, LoadEntities, CloseRoot, filling
  <2> QED BY <2>1, <2>2 DEF Next, Ended, vars, filling
<1>3. ASSUME NEW b \in Bundle, StartAdding(b) PROVE FullBundles' = FullBundles
  <2>1. ASSUME NEW c \in Kids(b) PROVE ~Full(c) /\ ~Full(c)'
    <3>1. c \in Bundle /\ c \notin RootSet BY <2>1, KidsAreBundles, RootsAreNoKids
    <3>2. linked'[c] = Busy BY <1>3, <3>1, <2>1 DEF StartAdding
    <3>3. linked[c] = "nothing"
      <4>1. link[b] = "waiting" BY <1>3 DEF StartAdding, MayLink
      <4> QED BY <4>1, <3>1, <2>1, OneParent DEF Fresh
    <3> QED BY <3>1, <3>2, <3>3 DEF Full, Busy
  <2>2. ASSUME NEW c \in Bundle, c \notin Kids(b) PROVE Full(c)' <=> Full(c)
    <3>1. linked'[c] = linked[c] BY <1>3, <2>2 DEF StartAdding
    <3> QED BY <3>1, <1>1, <1>2, FullStays
  <2> QED BY <2>1, <2>2 DEF FullBundles
<1>4. ASSUME UNCHANGED linked PROVE FullBundles' = FullBundles
  <2>1. \A c \in Bundle : Full(c)' <=> Full(c) BY <1>1, <1>2, <1>4, FullStays
  <2> QED BY <2>1 DEF FullBundles
<1>5. (\E b \in Bundle : StartAdding(b)) \/ UNCHANGED linked
  <2>1. CASE Main
    BY <2>1 DEF Main, StoreRoot, WaitDone, WaitExtract, WaitChild, ExportDone, CloseOne, CloseReturns,
         linking
  <2>2. ASSUME NEW b \in Bundle, Goroutine(b), ~StartAdding(b) PROVE UNCHANGED linked
    BY <2>2 DEF Goroutine, StoreChild, Abandon, StartLinking, Leave, Finish,
         FinalizeStorage, BeginExport, LoadEntities, CloseRoot, linking
  <2> QED BY <2>1, <2>2 DEF Next, Ended, vars, linking
<1>6. UNCHANGED dropped
  <2>1. CASE Main
    BY <2>1 DEF Main, StoreRoot, WaitDone, WaitExtract, WaitChild, ExportDone, CloseOne, CloseReturns
  <2>2. ASSUME NEW b \in Bundle, Goroutine(b) PROVE UNCHANGED dropped
    BY <2>2 DEF Goroutine, StoreChild, Abandon, StartLinking, Leave, Finish, StartAdding,
         FinalizeStorage, BeginExport, LoadEntities, CloseRoot
  <2> QED BY <2>1, <2>2 DEF Next, Ended, vars
<1>7. FullBundles' = FullBundles BY <1>3, <1>4, <1>5
<1> QED BY <1>6, <1>7 DEF LossyBundles, Lossy

\* Wait returns: TreeExport begins, or gives up.
LEMMA WaitRefines ==
  ASSUME Inv, Complete, WaitChild, UNCHANGED <<FullBundles, LossyBundles>>
  PROVE  [T!Next]_(T!vars)
<1> USE DEF Inv
<1>1. main = "child" /\ childAddWait = 0 BY DEF WaitChild, AllLinked
<1>2. ~Waited /\ extractWait = 0 BY <1>1 DEF Waited, Barriers
<1>3. Phase = "filling" /\ Answer = "none" BY <1>1, <1>2 DEF Phase, Answer
<1>4. RootSet \subseteq Bundle BY StoreContextAssumption DEF RootSet
<1>5. HandedRoots = {} BY <1>2, <1>4 DEF HandedRoots, Handed, ErrorsKept
<1>6. CASE err = NoError
  <2>1. faults = {} BY <1>2, <1>6 DEF ErrorsKept
  <2>2. Over BY <1>1, <1>2, <2>1 DEF Over, OnlyLate
  <2>3. \A b \in Bundle : Full(b) BY <2>1, <2>2, AllAreFilled DEF Full
  <2>4. FullBundles = Bundle BY <2>3 DEF FullBundles
  <2>5. main' = "export" /\ \A r \in RootSet : export'[r] = "begin"
    BY <1>4, <1>6 DEF WaitChild
  <2>6. HandedRoots' = {} BY <2>5 DEF HandedRoots, Handed
  <2>7. Phase' = "exporting" /\ Answer' = "none" BY <2>5 DEF Phase, Answer, Waited
  <2>8. T!Begin BY <1>3, <1>5, <2>4, <2>6, <2>7 DEF T!Begin
  <2> QED BY <2>8 DEF T!Next
<1>7. CASE err # NoError
  <2>1. main' = "close" /\ result' = err /\ export' = export /\ faults' = faults
    BY <1>7 DEF WaitChild
  <2>2. HandedRoots' = HandedRoots BY <2>1 DEF HandedRoots, Handed
  <2>3. Phase' = "over" /\ Answer' = "error" BY <1>7, <2>1 DEF Phase, Answer, Waited
  <2>4. T!GiveUp BY <1>3, <2>2, <2>3 DEF T!GiveUp
  <2> QED BY <2>4 DEF T!Next
<1> QED BY <1>6, <1>7

\* The goroutine of a root hands it over, when it was loaded without an error.
LEMMA RootRefines ==
  ASSUME Inv, Complete, ClosedLast, Fresh, UNCHANGED <<FullBundles, LossyBundles>>,
         NEW r \in Bundle, BeginExport(r) \/ LoadEntities(r) \/ CloseRoot(r)
  PROVE  [T!Next]_(T!vars)
<1> USE DEF Inv
<1>1. export[r] \in {"begin", "loading", "closing"} /\ main' = main
  BY DEF BeginExport, LoadEntities, CloseRoot
<1>2. main = "export" /\ r \in RootSet BY <1>1 DEF ClosedLast, Complete
<1>3. Phase = "exporting" /\ UNCHANGED <<Phase, Answer>>
  BY <1>1, <1>2 DEF Phase, Answer, Waited
<1>4. \A q \in RootSet : q # r => (Handed(q)' <=> Handed(q))
  <2>1. RootSet \subseteq Bundle BY StoreContextAssumption DEF RootSet
  <2>2. \A q \in Bundle : q # r =>
          export'[q] = export[q] /\ (<<"export", q>> \in faults' <=> <<"export", q>> \in faults)
    BY FaultsBooked DEF BeginExport, LoadEntities, CloseRoot, Move, TypeOK, errors, Fine
  <2> QED BY <2>1, <2>2 DEF Handed
<1>5. CASE Handed(r)' <=> Handed(r)
  <2>1. HandedRoots' = HandedRoots BY <1>4, <1>5 DEF HandedRoots
  <2> QED BY <1>3, <2>1 DEF T!vars
<1>6. CASE ~Handed(r) /\ Handed(r)'
  <2>1. HandedRoots' = HandedRoots \union {r} /\ r \notin HandedRoots
    BY <1>2, <1>4, <1>6 DEF HandedRoots
  <2>2. T!ExportRoot(r) BY <1>3, <2>1 DEF T!ExportRoot
  <2> QED BY <1>2, <2>2 DEF T!Next
<1>7. CASE Handed(r) /\ ~Handed(r)'
  <2>1. CloseRoot(r)
    BY <1>7 DEF Handed, BeginExport, LoadEntities
  <2>2. export'[r] = "closed" BY <2>1 DEF CloseRoot, Move, TypeOK
  <2>3. <<"export", r>> \in faults' <=> <<"export", r>> \in faults
    BY <2>1, FaultsBooked DEF CloseRoot, errors, Fine
  <2> QED BY <1>7, <2>2, <2>3 DEF Handed
<1> QED BY <1>5, <1>6, <1>7

\* Export answers: nil only when all roots were handed over.
LEMMA AnswerRefines ==
  ASSUME Inv, Inv', ExportDone, UNCHANGED <<FullBundles, LossyBundles>>
  PROVE  [T!Next]_(T!vars)
<1> USE DEF Inv
<1>1. main = "export" /\ main' = "close" /\ export' = export BY DEF ExportDone
<1>2. Phase = "exporting" /\ Phase' = "over" BY <1>1 DEF Phase, Waited
<1>3. Answer' \in {"nil", "error"} /\ (Answer' = "nil" <=> result' = NoError)
  BY <1>1 DEF Answer
<1>4. \A r : <<"export", r>> \in faults' <=> <<"export", r>> \in faults
  BY FaultsBooked DEF ExportDone, errors, Fine
<1>5. HandedRoots' = HandedRoots BY <1>1, <1>4 DEF HandedRoots, Handed
<1>6. ASSUME result' = NoError PROVE HandedRoots = RootSet
  <2>1. \A f \in faults' : f[1] \in LateKinds
    BY <1>1, <1>6 DEF ErrorsKept, Waited
  <2>2. \A r : <<"export", r>> \notin faults
    <3> SUFFICES ASSUME NEW r, <<"export", r>> \in faults PROVE FALSE OBVIOUS
    <3>1. <<"export", r>> \in faults' BY <1>4
    <3>2. <<"export", r>>[1] = "export" OBVIOUS
    <3> QED BY <2>1, <3>1, <3>2 DEF LateKinds
  <2>3. \A r \in RootSet : export[r] = "closed" BY DEF ExportDone, Exported
  <2> QED BY <2>2, <2>3 DEF HandedRoots, Handed
<1>7. T!Return BY <1>2, <1>3, <1>5, <1>6 DEF T!Return
<1> QED BY <1>7 DEF T!Next

\* Everything else is a stutter of TreeExport.
LEMMA OthersStutter ==
  ASSUME UNCHANGED <<FullBundles, LossyBundles>>,
         [Next]_vars, ~WaitChild, ~ExportDone,
         \A b \in Bundle : /\ ~AddEntities(b) /\ ~AddField(b) /\ ~AddChildren(b)
                           /\ ~BeginExport(b) /\ ~LoadEntities(b) /\ ~CloseRoot(b)
  PROVE  [T!Next]_(T!vars)
<1>1. /\ export' = export
      /\ \A r : <<"export", r>> \in faults' <=> <<"export", r>> \in faults
      /\ main' = main \/ (main \in {"storing", "extract"} /\ main' \in {"extract", "child"})
                      \/ (main = "close" /\ main' = "ended")
      /\ result' = result
  <2>1. CASE Main
    BY <2>1, FaultsBooked
       DEF Main, StoreRoot, StoreNext, StoreOpens, StoreFails, WaitDone, WaitExtract, CloseOne,
           CloseReturns, errors, Fine, Reported
  <2>2. ASSUME NEW b \in Bundle, Goroutine(b)
        PROVE  /\ export' = export /\ main' = main /\ result' = result
               /\ \A r : <<"export", r>> \in faults' <=> <<"export", r>> \in faults
    BY <2>2, FaultsBooked
       DEF Goroutine, StoreChild, StoreNext, StoreOpens, StoreFails, Abandon, StartLinking, Leave, Finish,
           StartAdding, FinalizeStorage, errors, Fine, Reported
  <2>3. CASE UNCHANGED vars BY <2>3 DEF vars, errors
  <2> QED BY <2>1, <2>2, <2>3 DEF Next, Ended
<1>2. HandedRoots' = HandedRoots BY <1>1 DEF HandedRoots, Handed
<1>3. UNCHANGED <<Phase, Answer>> BY <1>1 DEF Phase, Answer, Waited
<1> QED BY <1>2, <1>3 DEF T!vars

\* The invariants that the refinement takes from the current state.
Refining == Inv /\ Complete /\ ClosedLast /\ Fresh

\* Each step is one of TreeExport, or a stutter.
LEMMA StepRefines == Refining /\ [Next]_vars => [T!Next]_(T!vars)
<1> SUFFICES ASSUME Refining, [Next]_vars PROVE [T!Next]_(T!vars) OBVIOUS
<1> USE DEF Refining
<1>1. Inv' BY StepKeepsInv
<1>2. CASE \E b \in Bundle : AddEntities(b) \/ AddField(b) \/ AddChildren(b)
  BY <1>1, <1>2, FillingRefines
<1>3. CASE \A b \in Bundle : ~AddEntities(b) /\ ~AddField(b) /\ ~AddChildren(b)
  <2>1. UNCHANGED <<FullBundles, LossyBundles>> BY <1>3, OthersFillNothing
  <2>2. CASE WaitChild BY <2>1, <2>2, WaitRefines
  <2>3. CASE ExportDone BY <1>1, <2>1, <2>3, AnswerRefines
  <2>4. CASE \E r \in Bundle : BeginExport(r) \/ LoadEntities(r) \/ CloseRoot(r)
    BY <2>1, <2>4, RootRefines
  <2>5. CASE ~WaitChild /\ ~ExportDone
             /\ \A r \in Bundle : ~BeginExport(r) /\ ~LoadEntities(r) /\ ~CloseRoot(r)
    BY <1>3, <2>1, <2>5, OthersStutter
  <2> QED BY <2>2, <2>3, <2>4, <2>5
<1> QED BY <1>2, <1>3

\* For any tree and any failures, Export does what TreeExport does, one bundle
\* and one root after the other: it fills all bundles, lossy or not, before it
\* hands over the first root, leaves them alone from then on, and answers nil
\* only when all roots were handed over.  A nil says nothing about the values
\* and children that ErrNoEntity dropped.
THEOREM ExportsTheTree == Spec => ImplementsTreeExport
<1>1. Init => T!Init
  <2> SUFFICES ASSUME Init PROVE T!Init OBVIOUS
  <2>1. Phase = "filling" /\ Answer = "none" BY DEF Init, Phase, Answer, Waited
  <2>2. FullBundles = {} /\ LossyBundles = {} BY DEF Init, FullBundles, LossyBundles, Full
  <2>3. RootSet \subseteq Bundle BY StoreContextAssumption DEF RootSet
  <2>4. HandedRoots = {} BY <2>3 DEF Init, HandedRoots, Handed
  <2> QED BY <2>1, <2>2, <2>4 DEF T!Init
<1>2. Init => Refining
  BY Initially, InitiallyComplete, InitiallyClosedLast, InitiallyFresh DEF Refining
<1>3. Refining /\ [Next]_vars => Refining'
  BY StepKeepsInv, StepKeepsComplete, StepKeepsClosedLast, StepKeepsFresh DEF Refining
<1>4. Refining /\ [Next]_vars => [T!Next]_(T!vars) BY StepRefines
<1> QED BY <1>1, <1>2, <1>3, <1>4, PTL DEF Spec, ImplementsTreeExport, T!Spec
===============================================================================
