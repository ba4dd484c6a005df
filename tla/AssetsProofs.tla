---- MODULE AssetsProofs ----
(* internal/assets: what the scripts of the frontend promise for every       *)
(* entity, any number of colours, lines of any length and any windows: rows  *)
(* in the order of the last click, highlights that can be told apart, a      *)
(* graph of all statements, and data that TIPSY gets once; and what          *)
(* build.mjs promises for any entry points and any number of edits, failures *)
(* and restarts: a source and a directory that fit each other.               *)
EXTENDS Frontend, AssetBuild, FiniteSetTheorems, SequenceTheorems, TLAPS

----------------------------------------------------------------------------
(* Induction over the natural numbers *)

\* Of the intervals 0 .. n of a set of numbers one holds no other.
LEMMA LeastNatural ==
  ASSUME NEW S \in SUBSET Nat, S # {}
  PROVE  \E m \in S : \A n \in S : m =< n
<1> DEFINE Up == {0 .. n : n \in S}
           R == StrictSubsetOrdering(Nat)
           F == FiniteSubsetsOf(Nat)
<1>1. IsWellFoundedOn(R, F) BY FS_StrictSubsetOrderingWellFounded
<1>2. Up \subseteq F /\ Up # {}
  <2>1. ASSUME NEW n \in S PROVE (0 .. n) \in F
    <3>1. IsFiniteSet(0 .. n) BY FS_Interval
    <3>2. 0 .. n \subseteq Nat OBVIOUS
    <3> QED BY <3>1, <3>2 DEF FiniteSubsetsOf
  <2>2. PICK n \in S : TRUE OBVIOUS
  <2>3. (0 .. n) \in Up OBVIOUS
  <2> QED BY <2>1, <2>3
<1>3. PICK x \in Up : \A y \in Up : ~(<<y, x>> \in R)
  <2> HIDE DEF Up, R, F
  <2> QED BY <1>1, <1>2, WFMin
<1>4. PICK m \in S : x = 0 .. m OBVIOUS
<1>5. \A n \in S : ~(n < m)
  <2> SUFFICES ASSUME NEW n \in S, n < m PROVE FALSE OBVIOUS
  <2>1. (0 .. n) \subseteq (0 .. m) /\ (0 .. n) # (0 .. m)
    <3>1. m \in 0 .. m /\ m \notin 0 .. n OBVIOUS
    <3> QED BY <3>1
  <2>2. <<0 .. n, 0 .. m>> \in R BY <2>1 DEF StrictSubsetOrdering
  <2>3. (0 .. n) \in Up OBVIOUS
  <2> QED BY <1>3, <1>4, <2>2, <2>3
<1> QED BY <1>5

\* A set with 0 and all successors is that of the numbers: induction without
\* an operator as parameter.
LEMMA SetInduction ==
  ASSUME NEW S \in SUBSET Nat, 0 \in S, \A n \in S : n + 1 \in S
  PROVE  S = Nat
<1> SUFFICES ASSUME Nat \ S # {} PROVE FALSE OBVIOUS
<1>1. PICK m \in Nat \ S : \A n \in Nat \ S : m =< n BY LeastNatural
<1>2. m # 0 /\ m - 1 \in Nat BY <1>1
<1>3. m - 1 \in S BY <1>1, <1>2
<1> QED BY <1>2, <1>3

----------------------------------------------------------------------------
(* The highlights of the table *)

\* The next colour is the one after the last, as long as none is used twice;
\* until then the colours in use are pairwise different.
ColorsInUse ==
  /\ marked < NumColors => colorIndex = marked
  /\ marked <= NumColors =>
       /\ \A u \in URIs : highlighted[u] <= marked
       /\ \A u, v \in URIs : highlighted[u] # 0 /\ highlighted[u] = highlighted[v] => u = v

ColorTypeOK ==
  /\ table \in Seq(Seq(URIs))
  /\ highlighted \in [URIs -> 0 .. NumColors] /\ colorIndex \in 0 .. NumColors - 1
  /\ marked \in 0 .. NumColors + 1

ColorInv == ColorTypeOK /\ ColorsInUse /\ style = Colored(highlighted)

\* An element of the table shows a URI.
LEMMA TextIsURI == ASSUME table \in Seq(Seq(URIs)) PROVE \A e \in Elements : Text(e) \in URIs
<1> SUFFICES ASSUME NEW i \in 1 .. Len(table), NEW k \in 1 .. Len(table[i])
             PROVE  table[i][k] \in URIs
  BY DEF Elements, Text
<1>1. table[i] \in Seq(URIs) OBVIOUS
<1> QED BY <1>1

\* The invariant says what a reader of the page may rely on.
LEMMA ColorInvSuffices == ColorInv => ColorsTellApart
<1> SUFFICES ASSUME ColorInv PROVE ColorsTellApart OBVIOUS
<1>1. \A e \in Elements : Text(e) \in URIs BY TextIsURI DEF ColorInv, ColorTypeOK
<1>2. \A e \in Elements : style[e] = highlighted[Text(e)] BY DEF ColorInv, Colored
<1> QED BY <1>1, <1>2 DEF ColorsTellApart, ColorInv, ColorsInUse

\* Before any click nothing is highlighted.
LEMMA ColorsInitially == ASSUME TableInit, table \in Seq(Seq(URIs)) PROVE ColorInv
BY TableAssumption DEF TableInit, ColorInv, ColorTypeOK, ColorsInUse

\* The colour index stays below the number of colours, and does not wrap
\* around before the last of them.
LEMMA NextColor ==
  ASSUME NEW n \in Nat \ {0}, NEW x \in 0 .. n - 1
  PROVE  (x + 1) % n \in 0 .. n - 1 /\ (x + 1 < n => (x + 1) % n = x + 1)
OBVIOUS

\* A click on a URI sets a colour that is not in use, or takes one away.
LEMMA ToggleKeepsColors ==
  ASSUME ColorInv, NEW uri \in URIs, ToggleHighlight(uri), UNCHANGED table PROVE ColorInv'
<1> USE TableAssumption
<1> DEFINE next == (colorIndex + 1) % NumColors
<1>0. /\ ColorTypeOK /\ ColorsInUse
      /\ next \in 0 .. NumColors - 1 /\ (colorIndex + 1 < NumColors => next = colorIndex + 1)
  BY NextColor DEF ColorInv, ColorTypeOK
<1> HIDE DEF next
<1>1. style' = Colored(highlighted)'
  BY DEF ToggleHighlight, Colored, Elements, Text
<1>2. CASE highlighted[uri] = 0
  <2>1. /\ highlighted' = [highlighted EXCEPT ![uri] = colorIndex + 1]
        /\ colorIndex' = next
        /\ marked' = IF marked > NumColors THEN marked ELSE marked + 1
    BY <1>2 DEF ToggleHighlight, next
  <2>2. ColorTypeOK' BY <1>0, <2>1 DEF ColorTypeOK
  <2>3. ColorsInUse'
    <3>1. CASE marked < NumColors
      <4>1. colorIndex = marked /\ marked' = marked + 1
        BY <1>0, <2>1, <3>1 DEF ColorsInUse, ColorTypeOK
      <4>2. \A u \in URIs : highlighted[u] \in 0 .. marked
        BY <1>0, <3>1 DEF ColorsInUse, ColorTypeOK
      <4>3. \A u \in URIs : highlighted'[u] = IF u = uri THEN marked + 1 ELSE highlighted[u]
        BY <1>0, <2>1, <4>1 DEF ColorTypeOK
      <4> QED BY <1>0, <2>1, <3>1, <4>1, <4>2, <4>3 DEF ColorsInUse, ColorTypeOK
    <3>2. CASE marked >= NumColors
      BY <1>0, <2>1, <3>2 DEF ColorsInUse, ColorTypeOK
    <3> QED BY <1>0, <3>1, <3>2 DEF ColorTypeOK
  <2> QED BY <1>1, <2>2, <2>3 DEF ColorInv
<1>3. CASE highlighted[uri] # 0
  <2>1. /\ highlighted' = [highlighted EXCEPT ![uri] = 0]
        /\ UNCHANGED <<colorIndex, marked>>
    BY <1>3 DEF ToggleHighlight
  <2>2. ColorTypeOK' BY <1>0, <2>1 DEF ColorTypeOK
  <2>3. \A u \in URIs : highlighted'[u] = IF u = uri THEN 0 ELSE highlighted[u]
    BY <1>0, <2>1 DEF ColorTypeOK
  <2>4. ColorsInUse' BY <1>0, <2>1, <2>3 DEF ColorsInUse, ColorTypeOK
  <2> QED BY <1>1, <2>2, <2>4 DEF ColorInv
<1> QED BY <1>2, <1>3

\* A reset forgets every colour.
LEMMA ResetKeepsColors == ASSUME ColorInv, ResetColors, UNCHANGED table PROVE ColorInv'
<1>1. style' = Colored(highlighted)' BY DEF ResetColors, Colored, Elements, Text
<1>2. ColorTypeOK' /\ ColorsInUse'
  BY TableAssumption DEF ColorInv, ColorTypeOK, ColorsInUse, ResetColors
<1> QED BY <1>1, <1>2 DEF ColorInv

\* No click breaks the invariant.
LEMMA TableKeepsColors == ASSUME ColorInv, TableStep PROVE ColorInv'
<1>1. ASSUME UNCHANGED <<table, highlighted, colorIndex, style, marked>> PROVE ColorInv'
  BY <1>1 DEF ColorInv, ColorTypeOK, ColorsInUse, Colored, Elements, Text
<1>2. ASSUME NEW ctrl \in BOOLEAN, NEW alt \in BOOLEAN, ClickHead(ctrl, alt) PROVE ColorInv'
  BY <1>1, <1>2, ResetKeepsColors DEF ClickHead
<1>3. ASSUME NEW ctrl \in BOOLEAN, NEW alt \in BOOLEAN, NEW e \in Elements,
             ClickURI(e, ctrl, alt)
      PROVE  ColorInv'
  <2>1. Text(e) \in URIs BY TextIsURI DEF ColorInv, ColorTypeOK
  <2> QED BY <1>1, <1>3, <2>1, ToggleKeepsColors DEF ClickURI
<1> QED BY <1>2, <1>3 DEF TableStep

----------------------------------------------------------------------------
(* The order of the rows *)

\* The order of bringToFront: the rows in first come first.
Less(first, i, j) == IF i \in first <=> j \in first THEN i < j ELSE i \in first

\* s shows each row once, those in first and then the others.
Split(s, m, q, first) ==
  /\ s \in [1 .. m -> 1 .. m] /\ \A i \in 1 .. m : \E k \in 1 .. m : s[k] = i
  /\ \A k \in 1 .. m : s[k] \in first <=> k <= q
  /\ \A k, l \in 1 .. m : k < l /\ (l <= q \/ q < k) => s[k] < s[l]

\* Any number of rows can be split.
LEMMA SplitExists ==
  ASSUME NEW m \in Nat, NEW first
  PROVE  \E q \in 0 .. m : \E s : Split(s, m, q, first)
<1> DEFINE S == {n \in Nat : \E q \in 0 .. n : \E s : Split(s, n, q, first)}
<1>1. 0 \in S
  <2>1. Split([k \in 1 .. 0 |-> 0], 0, 0, first) BY DEF Split
  <2> QED BY <2>1
<1>2. ASSUME NEW n \in S PROVE n + 1 \in S
  <2>0. PICK q \in 0 .. n : \E s : Split(s, n, q, first) OBVIOUS
  <2>1. PICK s : Split(s, n, q, first) BY <2>0
  <2>2. n \in Nat /\ \A k \in 1 .. n : s[k] \in 1 .. n BY <2>1 DEF Split
  <2>3. CASE n + 1 \in first
    <3> DEFINE t == [k \in 1 .. n + 1 |->
                       IF k <= q THEN s[k] ELSE IF k = q + 1 THEN n + 1 ELSE s[k - 1]]
    <3>1. t \in [1 .. n + 1 -> 1 .. n + 1]
      <4>1. ASSUME NEW k \in 1 .. n + 1
            PROVE  (IF k <= q THEN s[k] ELSE IF k = q + 1 THEN n + 1 ELSE s[k - 1]) \in 1 .. n + 1
        <5>1. CASE k <= q BY <2>2, <5>1
        <5>2. CASE k = q + 1 BY <2>2, <5>2
        <5>3. CASE k > q + 1
          <6>1. k - 1 \in 1 .. n BY <2>2, <5>3
          <6> QED BY <2>2, <5>3, <6>1
        <5> QED BY <2>2, <5>1, <5>2, <5>3
      <4> QED BY <4>1
    <3>2. ASSUME NEW i \in 1 .. n + 1 PROVE \E k \in 1 .. n + 1 : t[k] = i
      <4>1. CASE i = n + 1
        <5>1. q + 1 \in 1 .. n + 1 /\ t[q + 1] = i BY <2>2, <4>1
        <5> QED BY <5>1
      <4>2. CASE i # n + 1
        <5>1. PICK k \in 1 .. n : s[k] = i BY <2>1, <2>2, <4>2 DEF Split
        <5>2. CASE k <= q
          <6>1. k \in 1 .. n + 1 /\ t[k] = i BY <2>2, <5>1, <5>2
          <6> QED BY <6>1
        <5>3. CASE k > q
          <6>1. k + 1 \in 1 .. n + 1 /\ t[k + 1] = s[(k + 1) - 1] /\ (k + 1) - 1 = k
            BY <2>2, <5>1, <5>3
          <6> QED BY <5>1, <6>1
        <5> QED BY <2>2, <5>2, <5>3
      <4> QED BY <4>1, <4>2
    <3>3. \A k \in 1 .. n + 1 : t[k] \in first <=> k <= q + 1
      <4> SUFFICES ASSUME NEW k \in 1 .. n + 1 PROVE t[k] \in first <=> k <= q + 1 OBVIOUS
      <4>1. CASE k <= q BY <2>1, <2>2, <4>1 DEF Split
      <4>2. CASE k = q + 1 BY <2>2, <2>3, <4>2
      <4>3. CASE k > q + 1
        <5>1. k - 1 \in 1 .. n /\ ~(k - 1 <= q) /\ t[k] = s[k - 1] BY <2>2, <4>3
        <5> QED BY <2>1, <5>1, <4>3 DEF Split
      <4> QED BY <2>2, <4>1, <4>2, <4>3
    <3>4. ASSUME NEW k \in 1 .. n + 1, NEW l \in 1 .. n + 1, k < l, l <= q + 1 \/ q + 1 < k
          PROVE  t[k] < t[l]
      <4>1. CASE l <= q BY <2>1, <2>2, <3>4, <4>1 DEF Split
      <4>2. CASE l = q + 1
        <5>1. k \in 1 .. n /\ t[k] = s[k] /\ t[l] = n + 1 BY <2>2, <3>4, <4>2
        <5>2. s[k] \in 1 .. n BY <2>1, <5>1 DEF Split
        <5> QED BY <2>2, <5>1, <5>2
      <4>3. CASE q + 1 < k
        <5>1. k - 1 \in 1 .. n /\ l - 1 \in 1 .. n /\ q < k - 1 /\ k - 1 < l - 1
              /\ t[k] = s[k - 1] /\ t[l] = s[l - 1]
          BY <2>2, <3>4, <4>3
        <5> QED BY <2>1, <5>1 DEF Split
      <4> QED BY <2>2, <3>4, <4>1, <4>2, <4>3
    <3>5. Split(t, n + 1, q + 1, first)
      <4> HIDE DEF t
      <4> QED BY <3>1, <3>2, <3>3, <3>4 DEF Split
    <3> QED BY <2>2, <3>5
  <2>4. CASE n + 1 \notin first
    <3> DEFINE t == [k \in 1 .. n + 1 |-> IF k = n + 1 THEN n + 1 ELSE s[k]]
    <3>1. t \in [1 .. n + 1 -> 1 .. n + 1]
      <4>1. \A k \in 1 .. n + 1 : (IF k = n + 1 THEN n + 1 ELSE s[k]) \in 1 .. n + 1 BY <2>2
      <4> QED BY <4>1
    <3>2. ASSUME NEW i \in 1 .. n + 1 PROVE \E k \in 1 .. n + 1 : t[k] = i
      <4>1. CASE i = n + 1 BY <2>2, <4>1
      <4>2. CASE i # n + 1
        <5>1. PICK k \in 1 .. n : s[k] = i BY <2>1, <2>2, <4>2 DEF Split
        <5> QED BY <2>2, <5>1
      <4> QED BY <4>1, <4>2
    <3>3. \A k \in 1 .. n + 1 : t[k] \in first <=> k <= q BY <2>1, <2>2, <2>4 DEF Split
    <3>4. ASSUME NEW k \in 1 .. n + 1, NEW l \in 1 .. n + 1, k < l, l <= q \/ q < k
          PROVE  t[k] < t[l]
      <4>1. k \in 1 .. n /\ t[k] = s[k] BY <2>2, <3>4
      <4>2. CASE l = n + 1 BY <2>2, <4>1, <4>2
      <4>3. CASE l # n + 1
        <5>1. l \in 1 .. n /\ t[l] = s[l] BY <2>2, <4>3
        <5> QED BY <2>1, <3>4, <4>1, <5>1 DEF Split
      <4> QED BY <4>2, <4>3
    <3>5. Split(t, n + 1, q, first)
      <4> HIDE DEF t
      <4> QED BY <3>1, <3>2, <3>3, <3>4 DEF Split
    <3> QED BY <2>2, <3>5
  <2> QED BY <2>3, <2>4
<1>3. S = Nat
  <2> HIDE DEF S
  <2>1. S \in SUBSET Nat BY DEF S
  <2> QED BY <1>1, <1>2, <2>1, SetInduction
<1> QED BY <1>3

\* What is sorted by Less is split.
LEMMA SortedIsSplit ==
  ASSUME NEW m \in Nat, NEW first, NEW s \in [1 .. m -> 1 .. m],
         \A i \in 1 .. m : \E k \in 1 .. m : s[k] = i,
         \A k, l \in 1 .. m : k < l => Less(first, s[k], s[l])
  PROVE  \E q \in 0 .. m : Split(s, m, q, first)
<1> DEFINE Q == {q \in 0 .. m : \A k \in q + 1 .. m : s[k] \notin first}
<1>1. m \in Q /\ Q \in SUBSET Nat OBVIOUS
<1>2. PICK q \in Q : \A n \in Q : q <= n
  <2> HIDE DEF Q
  <2> QED BY <1>1, LeastNatural
<1>3. q \in 0 .. m /\ \A k \in q + 1 .. m : s[k] \notin first OBVIOUS
<1>4. \A k \in 1 .. q : s[k] \in first
  <2> SUFFICES ASSUME NEW k \in 1 .. q PROVE s[k] \in first OBVIOUS
  <2>1. q - 1 \notin Q
    <3>1. ~(q <= q - 1) BY <1>3
    <3> HIDE DEF Q
    <3> QED BY <1>2, <3>1
  <2>2. q - 1 \in 0 .. m BY <1>3
  <2>3. PICK l \in (q - 1) + 1 .. m : s[l] \in first BY <2>1, <2>2
  <2>4. l = q BY <1>3, <2>3
  <2>5. CASE k = q BY <2>3, <2>4, <2>5
  <2>6. CASE k < q
    <3>1. Less(first, s[k], s[q]) BY <1>3, <2>6
    <3> QED BY <2>3, <2>4, <3>1 DEF Less
  <2> QED BY <1>3, <2>5, <2>6
<1>5. \A k \in 1 .. m : s[k] \in first <=> k <= q
  <2> SUFFICES ASSUME NEW k \in 1 .. m PROVE s[k] \in first <=> k <= q OBVIOUS
  <2>1. CASE k <= q
    <3>1. k \in 1 .. q BY <1>3, <2>1
    <3> QED BY <1>4, <2>1, <3>1
  <2>2. CASE ~(k <= q)
    <3>1. k \in q + 1 .. m BY <1>3, <2>2
    <3> QED BY <1>3, <2>2, <3>1
  <2> QED BY <2>1, <2>2
<1>6. \A k, l \in 1 .. m : k < l /\ (l <= q \/ q < k) => s[k] < s[l]
  BY <1>3, <1>5 DEF Less
<1> QED BY <1>3, <1>5, <1>6 DEF Split

\* What is split is sorted by Less, and no row is shown twice.
LEMMA SplitIsSorted ==
  ASSUME NEW m \in Nat, NEW first, NEW s, NEW q \in 0 .. m, Split(s, m, q, first)
  PROVE  /\ \A k, l \in 1 .. m : k < l => Less(first, s[k], s[l])
         /\ \A k, l \in 1 .. m : s[k] = s[l] => k = l
<1>1. \A k \in 1 .. m : s[k] \in Nat BY DEF Split
<1>2. ASSUME NEW k \in 1 .. m, NEW l \in 1 .. m, k < l PROVE Less(first, s[k], s[l])
  <2>1. (s[k] \in first <=> k <= q) /\ (s[l] \in first <=> l <= q) BY DEF Split
  <2>2. (l <= q \/ q < k) => s[k] < s[l] BY <1>2 DEF Split
  <2> QED BY <1>2, <2>1, <2>2 DEF Less
<1>3. \A k, l \in 1 .. m : k < l => s[k] # s[l] BY <1>1, <1>2 DEF Less
<1>4. \A k, l \in 1 .. m : k < l \/ k = l \/ l < k OBVIOUS
<1> QED BY <1>2, <1>3, <1>4

\* s shows each of n rows once.
Permutes(n, s) ==
  /\ s \in [1 .. n -> 1 .. n]
  /\ \A k, l \in 1 .. n : s[k] = s[l] => k = l
  /\ \A i \in 1 .. n : \E k \in 1 .. n : s[k] = i

\* t is s with the row at p moved to the end.
Moved(n, s, p, t) ==
  /\ t \in [1 .. n -> 1 .. n] /\ t[n] = s[p]
  /\ \A i \in 1 .. n - 1 : t[i] = IF i < p THEN s[i] ELSE s[i + 1]

\* A row that occurs is moved behind the others, which keep their order.
LEMMA MovedIs ==
  ASSUME NEW n \in Nat, NEW s, Permutes(n, s), NEW p \in 1 .. n
  PROVE  Moved(n, s, p, MovedToEnd(s, s[p]))
<1>0. s \in [1 .. n -> 1 .. n] /\ \A k, l \in 1 .. n : s[k] = s[l] => k = l BY DEF Permutes
<1> DEFINE r == s[p]
           I == {i \in 1 .. n : s[i] = r}
<1>1. s \in Seq(1 .. n) /\ Len(s) = n BY <1>0
<1>2. I = {p} BY <1>0
<1>3. SelectInSeq(s, LAMBDA v : v = r) = p
  <2>1. SelectInSeq(s, LAMBDA v : v = r) = IF I # {} THEN Min(I) ELSE 0
    BY <1>1 DEF SelectInSeq
  <2>2. Min({p}) = p BY DEF Min
  <2> HIDE DEF I, r
  <2> QED BY <1>2, <2>1, <2>2
<1>4. RemoveFirst(s, r) = RemoveAt(s, p)
  <2>1. \E i \in 1 .. Len(s) : s[i] = r BY <1>1
  <2> HIDE DEF r
  <2> QED BY <1>3, <2>1 DEF RemoveFirst
<1> DEFINE left == [i \in 1 .. n - 1 |-> IF i < p THEN s[i] ELSE s[i + 1]]
<1>5. RemoveAt(s, p) = left
  <2>1. RemoveAt(s, p) = SubSeq(s, 1, p - 1) \o SubSeq(s, p + 1, n) BY <1>1 DEF RemoveAt
  <2>2. SubSeq(s, 1, p - 1) = [i \in 1 .. p - 1 |-> s[i]] BY <1>0
  <2>3. SubSeq(s, p + 1, n) = [i \in 1 .. n - p |-> s[p + i]] BY <1>0
  <2>4. [i \in 1 .. p - 1 |-> s[i]] \o [i \in 1 .. n - p |-> s[p + i]] = left BY <1>0
  <2> QED BY <2>1, <2>2, <2>3, <2>4
<1>6. left \in [1 .. n - 1 -> 1 .. n]
  <2> SUFFICES ASSUME NEW i \in 1 .. n - 1 PROVE (IF i < p THEN s[i] ELSE s[i + 1]) \in 1 .. n
    OBVIOUS
  <2>1. i \in 1 .. n /\ i + 1 \in 1 .. n OBVIOUS
  <2> QED BY <1>0, <2>1
<1>7. left \in Seq(1 .. n) /\ Len(left) = n - 1 BY <1>6
<1>8. r \in 1 .. n BY <1>0
<1>9. \A i \in 1 .. n - 1 : left[i] = IF i < p THEN s[i] ELSE s[i + 1] OBVIOUS
<1> DEFINE t == Append(left, r)
<1>10. t = MovedToEnd(s, s[p]) BY <1>4, <1>5 DEF MovedToEnd
<1> HIDE DEF left, r
<1>11. t \in Seq(1 .. n) /\ Len(t) = n BY <1>7, <1>8
<1>12. t[n] = r /\ \A i \in 1 .. n - 1 : t[i] = left[i] BY <1>7, <1>8
<1> HIDE DEF t
<1>13. t \in [1 .. n -> 1 .. n]
  <2>1. t \in [1 .. Len(t) -> 1 .. n] BY <1>11, LenProperties
  <2> QED BY <1>11, <2>1
<1> QED BY <1>9, <1>10, <1>12, <1>13 DEF r, Moved

\* The fold takes one row after the other.
LEMMA RerenderedIs ==
  ASSUME NEW n \in Nat, NEW order \in [1 .. n -> 1 .. n]
  PROVE  \E shown : /\ shown[0] = body /\ shown[n] = Rerendered(order)
                    /\ \A k \in 0 .. n - 1 : shown[k + 1] = MovedToEnd(shown[k], order[k + 1])
<1> DEFINE Step(g, s) == IF s = {} THEN body ELSE MovedToEnd(g[s \ {Max(s)}], order[Max(s)])
           Folds(g, m) == g = [s \in SUBSET (1 .. m) |-> Step(g, s)]
           S == {m \in Nat : m <= n => \E g : Folds(g, m)}
<1>1. \A m \in Nat : \A s \in SUBSET (1 .. m) : m \in s => Max(s) = m
  <2> SUFFICES ASSUME NEW m \in Nat, NEW s \in SUBSET (1 .. m), m \in s PROVE Max(s) = m
    OBVIOUS
  <2>1. \A x \in s : x \in Nat /\ m >= x OBVIOUS
  <2>2. \A x \in s : (\A y \in s : x >= y) => x = m BY <2>1
  <2> QED BY <2>1, <2>2 DEF Max
<1>2. 0 \in S
  <2> DEFINE g == [s \in {{}} |-> body]
  <2>1. SUBSET (1 .. 0) = {{}} OBVIOUS
  <2>2. g = [s \in {{}} |-> Step(g, s)] OBVIOUS
  <2> QED BY <2>1, <2>2
<1>3. ASSUME NEW m \in S PROVE m + 1 \in S
  <2> SUFFICES ASSUME m + 1 <= n PROVE \E g : Folds(g, m + 1)
    <3> HIDE DEF Folds
    <3> QED OBVIOUS
  <2>1. m \in Nat /\ m <= n OBVIOUS
  <2>2. PICK g : Folds(g, m)
    <3> HIDE DEF Folds
    <3> QED BY <2>1
  <2> DEFINE h == [s \in SUBSET (1 .. m + 1) |->
                     IF m + 1 \in s THEN MovedToEnd(g[s \ {m + 1}], order[m + 1]) ELSE g[s]]
  <2>3. ASSUME NEW s \in SUBSET (1 .. m + 1) PROVE h[s] = Step(h, s)
    <3>1. CASE m + 1 \in s
      <4>1. Max(s) = m + 1 BY <1>1, <2>1, <3>1
      <4>2. s \ {m + 1} \in SUBSET (1 .. m + 1) /\ m + 1 \notin s \ {m + 1} OBVIOUS
      <4>3. h[s \ {m + 1}] = g[s \ {m + 1}] BY <4>2
      <4>4. h[s] = MovedToEnd(g[s \ {m + 1}], order[m + 1]) BY <3>1
      <4>5. s # {} BY <3>1
      <4> HIDE DEF h
      <4> QED BY <4>1, <4>3, <4>4, <4>5
    <3>2. CASE m + 1 \notin s
      <4>1. s \in SUBSET (1 .. m) BY <2>1, <3>2
      <4>2. h[s] = g[s] BY <3>2
      <4>3. g[s] = Step(g, s)
        <5> HIDE DEF Step
        <5> QED BY <2>2, <4>1
      <4>4. s \ {Max(s)} \in SUBSET (1 .. m + 1) /\ m + 1 \notin s \ {Max(s)} BY <3>2
      <4>5. h[s \ {Max(s)}] = g[s \ {Max(s)}] BY <4>4
      <4> HIDE DEF h
      <4> QED BY <4>2, <4>3, <4>5
    <3> QED BY <3>1, <3>2
  <2>4. Folds(h, m + 1)
    <3>1. DOMAIN h = SUBSET (1 .. m + 1) /\ h = [s \in DOMAIN h |-> h[s]] OBVIOUS
    <3> HIDE DEF h, Step
    <3> QED BY <2>3, <3>1
  <2> QED BY <2>4
<1>4. n \in S
  <2> HIDE DEF S
  <2>1. S \in SUBSET Nat BY DEF S
  <2>2. S = Nat BY <1>2, <1>3, <2>1, SetInduction
  <2> QED BY <2>2
<1> DEFINE iter == CHOOSE g : Folds(g, n)
<1>5. Folds(iter, n)
  <2> HIDE DEF Folds
  <2>1. \E g : Folds(g, n) BY <1>4
  <2> QED BY <2>1
<1>6. Rerendered(order) = iter[1 .. n]
  <2>1. DOMAIN order = 1 .. n OBVIOUS
  <2> QED BY <2>1 DEF Rerendered, FoldLeft, MapThenFoldSet
<1> HIDE DEF iter
<1> DEFINE shown == [k \in 0 .. n |-> iter[1 .. k]]
<1>7. iter[{}] = body
  <2>1. {} \in SUBSET (1 .. n) OBVIOUS
  <2> QED BY <1>5, <2>1
<1>8. ASSUME NEW k \in 0 .. n - 1 PROVE iter[1 .. k + 1] = MovedToEnd(iter[1 .. k], order[k + 1])
  <2>1. 1 .. k + 1 \in SUBSET (1 .. n) /\ k + 1 \in 1 .. k + 1 /\ k + 1 \in Nat OBVIOUS
  <2>2. Max(1 .. k + 1) = k + 1 BY <1>1, <2>1
  <2>3. (1 .. k + 1) \ {k + 1} = 1 .. k OBVIOUS
  <2>4. iter[1 .. k + 1] = Step(iter, 1 .. k + 1)
    <3> HIDE DEF Step
    <3> QED BY <1>5, <2>1
  <2> QED BY <2>1, <2>2, <2>3, <2>4
<1>9. shown[0] = body
  <2>1. 1 .. 0 = {} OBVIOUS
  <2> QED BY <1>7, <2>1
<1>10. shown[n] = Rerendered(order) BY <1>6
<1>11. \A k \in 0 .. n - 1 : shown[k + 1] = MovedToEnd(shown[k], order[k + 1])
  <2> SUFFICES ASSUME NEW k \in 0 .. n - 1
               PROVE  shown[k + 1] = MovedToEnd(shown[k], order[k + 1])
    OBVIOUS
  <2>1. k \in 0 .. n /\ k + 1 \in 0 .. n OBVIOUS
  <2> HIDE DEF MovedToEnd
  <2> QED BY <1>8, <2>1
<1> HIDE DEF shown
<1> QED BY <1>9, <1>10, <1>11

\* Taking out and appending one row after the other ends with the order given.
LEMMA RerenderedIsOrder ==
  ASSUME NEW n \in Nat, NEW order, Permutes(n, order), Permutes(n, body)
  PROVE  Rerendered(order) = order
<1>0. order \in [1 .. n -> 1 .. n] BY DEF Permutes
<1>1. PICK shown : /\ shown[0] = body /\ shown[n] = Rerendered(order)
                   /\ \A k \in 0 .. n - 1 : shown[k + 1] = MovedToEnd(shown[k], order[k + 1])
  BY <1>0, RerenderedIs
<1> DEFINE Good(k) == /\ Permutes(n, shown[k])
                      /\ \A j \in 1 .. k : shown[k][n - k + j] = order[j]
           S == {k \in Nat : k <= n => Good(k)}
<1>2. 0 \in S
  <2>1. \A j \in 1 .. 0 : FALSE OBVIOUS
  <2>2. Good(0) BY <1>1, <2>1
  <2> HIDE DEF Good
  <2> QED BY <2>2
<1>3. ASSUME NEW k \in S PROVE k + 1 \in S
  <2> SUFFICES ASSUME k + 1 <= n PROVE Good(k + 1)
    <3> HIDE DEF Good
    <3> QED OBVIOUS
  <2>1. k \in Nat /\ Good(k) /\ k + 1 \in 1 .. n /\ k \in 0 .. n - 1
    <3> HIDE DEF Good
    <3> QED OBVIOUS
  <2> DEFINE s == shown[k]
             t == shown[k + 1]
  <2>2. order[k + 1] \in 1 .. n BY <1>0, <2>1
  <2>3. PICK p \in 1 .. n : s[p] = order[k + 1] BY <2>1, <2>2 DEF Permutes
  <2>4. /\ t \in [1 .. n -> 1 .. n] /\ t[n] = s[p]
        /\ \A i \in 1 .. n - 1 : t[i] = IF i < p THEN s[i] ELSE s[i + 1]
    <3>1. t = MovedToEnd(s, s[p]) BY <1>1, <2>1, <2>3
    <3>2. Permutes(n, s) BY <2>1
    <3> HIDE DEF s, t, Good
    <3>3. Moved(n, s, p, MovedToEnd(s, s[p])) BY <2>3, <3>2, MovedIs
    <3>4. Moved(n, s, p, t) BY <3>1, <3>3
    <3> QED BY <3>4 DEF Moved
  <2>5. p <= n - k
    <3> SUFFICES ASSUME p > n - k PROVE FALSE BY <2>1
    <3>1. p - (n - k) \in 1 .. k /\ n - k + (p - (n - k)) = p BY <2>1, <2>3
    <3>2. PICK j \in 1 .. k : n - k + j = p BY <3>1
    <3>3. s[p] = order[j] BY <2>1, <3>2
    <3>4. j \in 1 .. n /\ j # k + 1 BY <2>1, <3>2
    <3> QED BY <2>1, <2>3, <3>3, <3>4 DEF Permutes
  <2>6. /\ s \in [1 .. n -> 1 .. n]
        /\ \A i, j \in 1 .. n : s[i] = s[j] => i = j
        /\ \A i \in 1 .. n : \E j \in 1 .. n : s[j] = i
        /\ \A j \in 1 .. k : s[n - k + j] = order[j]
    BY <2>1 DEF Permutes
  <2> HIDE DEF s, t, Good
  <2>7. ASSUME NEW i \in 1 .. n PROVE \E j \in 1 .. n : t[j] = i
    <3>1. PICK j \in 1 .. n : s[j] = i BY <2>6
    <3>2. CASE j = p
      <4>1. n \in 1 .. n BY <2>1
      <4> QED BY <2>4, <3>1, <3>2, <4>1
    <3>3. CASE j < p
      <4>1. j \in 1 .. n - 1 BY <3>3
      <4> QED BY <2>4, <3>1, <3>3, <4>1
    <3>4. CASE j > p
      <4>1. j - 1 \in 1 .. n - 1 /\ ~(j - 1 < p) /\ (j - 1) + 1 = j BY <3>4
      <4>2. t[j - 1] = s[j] BY <2>4, <4>1
      <4> QED BY <3>1, <4>1, <4>2
    <3> QED BY <3>2, <3>3, <3>4
  <2>8. ASSUME NEW i \in 1 .. n
         PROVE  \E a \in 1 .. n :
                  t[i] = s[a] /\ ((i = n /\ a = p) \/ (i < p /\ a = i) \/ (p <= i /\ a = i + 1))
    <3>1. CASE i = n BY <2>4, <3>1
    <3>2. CASE i # n /\ i < p
      <4>1. i \in 1 .. n - 1 BY <3>2
      <4> QED BY <2>4, <3>2, <4>1
    <3>3. CASE i # n /\ p <= i
      <4>1. i \in 1 .. n - 1 /\ ~(i < p) /\ i + 1 \in 1 .. n BY <3>3
      <4> QED BY <2>4, <3>3, <4>1
    <3> QED BY <3>1, <3>2, <3>3
  <2>9. ASSUME NEW i \in 1 .. n, NEW j \in 1 .. n, t[i] = t[j] PROVE i = j
    <3>1. PICK a \in 1 .. n :
            t[i] = s[a] /\ ((i = n /\ a = p) \/ (i < p /\ a = i) \/ (p <= i /\ a = i + 1))
      BY <2>8
    <3>2. PICK b \in 1 .. n :
            t[j] = s[b] /\ ((j = n /\ b = p) \/ (j < p /\ b = j) \/ (p <= j /\ b = j + 1))
      BY <2>8
    <3>3. s[a] = s[b] BY <2>9, <3>1, <3>2
    <3>4. a = b BY <2>6, <3>3
    <3> QED BY <2>3, <3>1, <3>2, <3>4
  <2>10. ASSUME NEW j \in 1 .. k + 1 PROVE t[n - (k + 1) + j] = order[j]
    <3>1. CASE j = k + 1
      <4>1. n - (k + 1) + j = n BY <2>1, <3>1
      <4> QED BY <2>3, <2>4, <3>1, <4>1
    <3>2. CASE j # k + 1
      <4> DEFINE i == n - (k + 1) + j
      <4>1. i \in 1 .. n - 1 /\ ~(i < p) /\ i + 1 = n - k + j /\ j \in 1 .. k
        BY <2>1, <2>5, <3>2
      <4>2. t[i] = s[i + 1] BY <2>4, <4>1
      <4> HIDE DEF i
      <4>3. t[i] = order[j] BY <2>6, <4>1, <4>2
      <4> QED BY <4>3 DEF i
    <3> QED BY <3>1, <3>2
  <2> QED BY <2>4, <2>7, <2>9, <2>10 DEF t, Good, Permutes
<1>4. n \in S
  <2> HIDE DEF S
  <2>1. S \in SUBSET Nat BY DEF S
  <2>2. S = Nat BY <1>2, <1>3, <2>1, SetInduction
  <2> QED BY <2>2
<1>5. shown[n] \in [1 .. n -> 1 .. n] /\ \A j \in 1 .. n : shown[n][j] = order[j]
  <2>1. Good(n)
    <3> HIDE DEF Good
    <3> QED BY <1>4
  <2>2. \A j \in 1 .. n : n - n + j = j OBVIOUS
  <2> QED BY <2>1, <2>2 DEF Permutes
<1>6. shown[n] = order BY <1>0, <1>5
<1> QED BY <1>1, <1>6

\* The rows that show the URI.
WithURI(uri) == {i \in 1 .. Len(table) : Has(i, uri)}

\* The array and the browser show the rows in one order, arranged for the URI
\* that was brought to the front last.
RowsInv ==
  /\ table \in Seq(Seq(URIs)) /\ front \in URIs \union {NoURI}
  /\ body = rows /\ \E q \in 0 .. Len(table) : Split(rows, Len(table), q, WithURI(front))

\* No row shows what is not a URI.
LEMMA NoURIShown == ASSUME table \in Seq(Seq(URIs)) PROVE WithURI(NoURI) = {}
<1> SUFFICES ASSUME NEW i \in 1 .. Len(table), Has(i, NoURI) PROVE FALSE BY DEF WithURI
<1>1. table[i] \in Seq(URIs) OBVIOUS
<1>2. PICK k \in DOMAIN table[i] : table[i][k] = NoURI BY DEF Has, ToSet
<1>3. NoURI \in URIs BY <1>1, <1>2
<1> QED BY <1>3, TableAssumption

\* Rows that are split are arranged as a reader expects.
LEMMA RowsInvSuffices == RowsInv => RowsInOrder
<1> SUFFICES ASSUME RowsInv PROVE RowsInOrder OBVIOUS
<1> DEFINE n == Len(table)
<1>1. n \in Nat BY DEF RowsInv
<1>2. PICK q \in 0 .. n : Split(rows, n, q, WithURI(front)) BY DEF RowsInv
<1>3. WithURI(front) \subseteq 1 .. n BY DEF WithURI
<1> HIDE DEF n
<1>4. rows \in Seq(1 .. n) /\ Len(rows) = n /\ DOMAIN rows = 1 .. n BY <1>1, <1>2 DEF Split
<1>5. ToSet(rows) = 1 .. n BY <1>2, <1>4 DEF Split, ToSet
<1>6. {rows[k] : k \in 1 .. q} = WithURI(front)
  <2>1. ASSUME NEW k \in 1 .. q PROVE rows[k] \in WithURI(front)
    <3>1. k \in 1 .. n /\ k <= q BY <1>1
    <3> QED BY <1>2, <3>1 DEF Split
  <2>2. ASSUME NEW i \in WithURI(front) PROVE \E k \in 1 .. q : rows[k] = i
    <3>1. PICK k \in 1 .. n : rows[k] = i BY <1>2, <1>3 DEF Split
    <3>2. k <= q BY <1>2, <3>1 DEF Split
    <3> QED BY <1>1, <3>1, <3>2
  <2> QED BY <2>1, <2>2
<1>7. Ascending(rows, 1, q) /\ Ascending(rows, q + 1, n)
  <2>1. \A k \in 1 .. q : k \in 1 .. n /\ k <= q BY <1>1
  <2>2. \A k \in q + 1 .. n : k \in 1 .. n /\ q < k BY <1>1
  <2> QED BY <1>2, <2>1, <2>2 DEF Split, Ascending
<1> QED BY <1>4, <1>5, <1>6, <1>7 DEF RowsInOrder, Arranged, RowsInv, WithURI, n

\* The table starts as the server wrote it.
LEMMA RowsInitially == ASSUME TableInit, table \in Seq(Seq(URIs)) PROVE RowsInv
<1>1. Len(table) \in Nat /\ rows = [i \in 1 .. Len(table) |-> i] /\ body = rows /\ front = NoURI
  BY DEF TableInit, Original
<1>2. WithURI(front) = {} BY <1>1, NoURIShown
<1> DEFINE n == Len(table)
<1> HIDE DEF n
<1>3. n \in Nat /\ rows = [i \in 1 .. n |-> i] BY <1>1 DEF n
<1>4. Split(rows, n, 0, {})
  <2>1. rows \in [1 .. n -> 1 .. n] /\ \A k \in 1 .. n : rows[k] = k BY <1>3
  <2>2. \A i \in 1 .. n : \E k \in 1 .. n : rows[k] = i BY <2>1
  <2>3. \A k \in 1 .. n : ~(k <= 0) BY <1>3
  <2>4. \A k, l \in 1 .. n : k < l => rows[k] < rows[l] BY <2>1
  <2> QED BY <2>1, <2>2, <2>3, <2>4 DEF Split
<1>5. 0 \in 0 .. n BY <1>3
<1> QED BY <1>1, <1>2, <1>4, <1>5 DEF RowsInv, n

\* What is split shows each row once.
LEMMA SplitPermutes ==
  ASSUME NEW m \in Nat, NEW first, NEW s, NEW q \in 0 .. m, Split(s, m, q, first)
  PROVE  Permutes(m, s) /\ DOMAIN s = 1 .. m /\ ToSet(s) = 1 .. m
<1>1. \A k, l \in 1 .. m : s[k] = s[l] => k = l BY SplitIsSorted
<1>2. s \in [1 .. m -> 1 .. m] /\ \A i \in 1 .. m : \E k \in 1 .. m : s[k] = i BY DEF Split
<1>3. DOMAIN s = 1 .. m /\ ToSet(s) = 1 .. m BY <1>2 DEF ToSet
<1> QED BY <1>1, <1>2, <1>3 DEF Permutes

\* What a sort by any comparator that agrees with Less leads to.
LEMMA SortKeepsRows ==
  ASSUME RowsInv, UNCHANGED table, body' = Rerendered(rows'), NEW uri, front' = uri,
         uri \in URIs \union {NoURI}, rows' \in [1 .. Len(table) -> 1 .. Len(table)],
         ToSet(rows') = 1 .. Len(table),
         \A k, l \in 1 .. Len(table) : k < l => Less(WithURI(uri), rows'[k], rows'[l])
  PROVE  RowsInv'
<1>1. Len(table) \in Nat BY DEF RowsInv
<1>2. PICK p \in 0 .. Len(table) : Split(rows, Len(table), p, WithURI(front)) BY DEF RowsInv
<1>3. \A i \in 1 .. Len(table) : \E k \in 1 .. Len(table) : rows'[k] = i BY DEF ToSet
<1>4. PICK q \in 0 .. Len(table) : Split(rows', Len(table), q, WithURI(uri))
  BY <1>1, <1>3, SortedIsSplit
<1>5. Permutes(Len(table), body) BY <1>1, <1>2, SplitPermutes DEF RowsInv
<1>6. Permutes(Len(table), rows') BY <1>1, <1>4, SplitPermutes
<1>7. body' = rows' BY <1>1, <1>5, <1>6, RerenderedIsOrder
<1>8. WithURI(front)' = WithURI(uri) BY DEF WithURI, Has
<1> QED BY <1>4, <1>7, <1>8 DEF RowsInv

\* Any rows can be sorted.
LEMMA SortExists ==
  ASSUME RowsInv, NEW uri
  PROVE  /\ DOMAIN rows = 1 .. Len(table) /\ ToSet(rows) = 1 .. Len(table)
         /\ \E s \in [1 .. Len(table) -> 1 .. Len(table)] :
              /\ ToSet(s) = 1 .. Len(table)
              /\ \A k, l \in 1 .. Len(table) : k < l => Less(WithURI(uri), s[k], s[l])
<1>1. Len(table) \in Nat BY DEF RowsInv
<1>2. PICK p \in 0 .. Len(table) : Split(rows, Len(table), p, WithURI(front)) BY DEF RowsInv
<1>3. DOMAIN rows = 1 .. Len(table) /\ ToSet(rows) = 1 .. Len(table)
  BY <1>1, <1>2, SplitPermutes
<1>0. PICK q \in 0 .. Len(table) : \E s : Split(s, Len(table), q, WithURI(uri))
  BY <1>1, SplitExists
<1>4. PICK s : Split(s, Len(table), q, WithURI(uri)) BY <1>0
<1>5. /\ s \in [1 .. Len(table) -> 1 .. Len(table)] /\ ToSet(s) = 1 .. Len(table)
      /\ \A k, l \in 1 .. Len(table) : k < l => Less(WithURI(uri), s[k], s[l])
  BY <1>1, <1>4, SplitPermutes, SplitIsSorted DEF Split
<1> QED BY <1>3, <1>5

\* A click that brings rows to the front arranges them for its URI.
LEMMA FrontKeepsRows ==
  ASSUME RowsInv, NEW uri \in URIs, BringToFront(uri), UNCHANGED table PROVE RowsInv'
<1> DEFINE N == 1 .. Len(table)
           Agrees(s) == /\ ToSet(s) = ToSet(rows)
                        /\ \A k, l \in DOMAIN rows : k < l =>
                             IF Has(s[k], uri) = Has(s[l], uri) THEN s[k] < s[l] ELSE Has(s[k], uri)
<1>1. rows' = CHOOSE s \in [DOMAIN rows -> ToSet(rows)] : Agrees(s)
  BY DEF BringToFront, SortRows, Sorted
<1>2. body' = Rerendered(rows') /\ front' = uri BY DEF BringToFront, SortRows
<1>3. DOMAIN rows = N /\ ToSet(rows) = N BY SortExists
<1>4. ASSUME NEW s \in [N -> N]
      PROVE  Agrees(s) <=> /\ ToSet(s) = N
                           /\ \A k, l \in N : k < l => Less(WithURI(uri), s[k], s[l])
  <2>1. \A i, j \in N : Less(WithURI(uri), i, j) <=>
                          IF Has(i, uri) = Has(j, uri) THEN i < j ELSE Has(i, uri)
    BY DEF Less, WithURI, Has
  <2> QED BY <1>3, <2>1
<1>5. \E s \in [N -> N] : Agrees(s)
  <2>1. PICK s \in [N -> N] : ToSet(s) = N
               /\ \A k, l \in N : k < l => Less(WithURI(uri), s[k], s[l])
    BY SortExists
  <2> HIDE DEF Agrees, N
  <2> QED BY <1>4, <2>1
<1>6. rows' \in [N -> N] /\ Agrees(rows')
  <2> HIDE DEF Agrees, N
  <2> QED BY <1>1, <1>3, <1>5
<1>7. ToSet(rows') = N /\ \A k, l \in N : k < l => Less(WithURI(uri), rows'[k], rows'[l])
  <2> HIDE DEF Agrees, N
  <2> QED BY <1>4, <1>6
<1> HIDE DEF Agrees
<1> QED BY <1>2, <1>6, <1>7, SortKeepsRows

\* A reset arranges the rows for no URI.
LEMMA ResetKeepsRows ==
  ASSUME RowsInv, ResetRowOrder, UNCHANGED table PROVE RowsInv'
<1> DEFINE N == 1 .. Len(table)
           Agrees(s) == /\ ToSet(s) = ToSet(rows)
                        /\ \A k, l \in DOMAIN rows : k < l => s[k] < s[l]
<1>1. rows' = CHOOSE s \in [DOMAIN rows -> ToSet(rows)] : Agrees(s)
  BY DEF ResetRowOrder, SortRows, Sorted
<1>2. body' = Rerendered(rows') /\ front' = NoURI BY DEF ResetRowOrder, SortRows
<1>3. DOMAIN rows = N /\ ToSet(rows) = N BY SortExists
<1>4. ASSUME NEW s \in [N -> N]
      PROVE  Agrees(s) <=> /\ ToSet(s) = N
                           /\ \A k, l \in N : k < l => Less(WithURI(NoURI), s[k], s[l])
  BY <1>3, NoURIShown DEF Less, RowsInv
<1>5. \E s \in [N -> N] : Agrees(s)
  <2>1. PICK s \in [N -> N] : ToSet(s) = N
               /\ \A k, l \in N : k < l => Less(WithURI(NoURI), s[k], s[l])
    BY SortExists
  <2> HIDE DEF Agrees, N
  <2> QED BY <1>4, <2>1
<1>6. rows' \in [N -> N] /\ Agrees(rows')
  <2> HIDE DEF Agrees, N
  <2> QED BY <1>1, <1>3, <1>5
<1>7. ToSet(rows') = N /\ \A k, l \in N : k < l => Less(WithURI(NoURI), rows'[k], rows'[l])
  <2> HIDE DEF Agrees, N
  <2> QED BY <1>4, <1>6
<1> HIDE DEF Agrees
<1> QED BY <1>2, <1>6, <1>7, SortKeepsRows

\* No click breaks the order.
LEMMA TableKeepsRows == ASSUME RowsInv, TableStep PROVE RowsInv'
<1>1. ASSUME UNCHANGED <<table, rows, body, front>> PROVE RowsInv'
  BY <1>1 DEF RowsInv, WithURI, Has
<1>2. ASSUME NEW ctrl \in BOOLEAN, NEW alt \in BOOLEAN, ClickHead(ctrl, alt) PROVE RowsInv'
  BY <1>1, <1>2, ResetKeepsRows DEF ClickHead
<1>3. ASSUME NEW ctrl \in BOOLEAN, NEW alt \in BOOLEAN, NEW e \in Elements,
             ClickURI(e, ctrl, alt)
      PROVE  RowsInv'
  <2>1. Text(e) \in URIs BY TextIsURI DEF RowsInv
  <2> QED BY <1>1, <1>3, <2>1, FrontKeepsRows DEF ClickURI
<1> QED BY <1>2, <1>3 DEF TableStep

----------------------------------------------------------------------------
(* The graph *)

\* A text of n letters in lines.
Lines(label, n) ==
  /\ label \in Seq(Nat) /\ Len(label) > 0
  /\ Line = 0 => Len(label) = 1
  /\ Line > 0 => /\ \A i \in 1 .. Len(label) - 1 : label[i] = Line
                 /\ label[Len(label)] \in 1 .. Line
  /\ (Len(label) - 1) * Line + label[Len(label)] = n

\* A full line before the others.
LEMMA LineBefore ==
  ASSUME NEW n \in Nat, NEW label, Lines(label, n), Line \in Nat \ {0}
  PROVE  Lines(<<Line>> \o label, Line + n)
<1> DEFINE l == Len(label)
           t == <<Line>> \o label
<1>1. label \in Seq(Nat) /\ l \in Nat /\ l > 0 /\ label[l] \in 1 .. Line
      /\ (l - 1) * Line + label[l] = n /\ \A i \in 1 .. l - 1 : label[i] = Line
  BY DEF Lines
<1>2. t \in Seq(Nat) /\ Len(t) = l + 1 /\ t[1] = Line /\ \A i \in 1 .. l : t[i + 1] = label[i]
  BY <1>1
<1> HIDE DEF l, t
<1>3. t[l + 1] = label[l] BY <1>1, <1>2
<1>4. \A i \in 1 .. l : t[i] = Line
  <2> SUFFICES ASSUME NEW i \in 1 .. l PROVE t[i] = Line OBVIOUS
  <2>1. CASE i = 1 BY <1>2, <2>1
  <2>2. CASE i # 1
    <3>1. i - 1 \in 1 .. l - 1 /\ i - 1 \in 1 .. l /\ (i - 1) + 1 = i BY <1>1, <2>2
    <3>2. t[i] = label[i - 1] BY <1>2, <3>1
    <3> QED BY <1>1, <3>1, <3>2
  <2> QED BY <2>1, <2>2
<1>5. \A a, b \in Nat : ((a + 1) - 1) * b = (a - 1) * b + b OBVIOUS
<1>6. ((l + 1) - 1) * Line + t[l + 1] = Line + n
  <2> DEFINE full == (l - 1) * Line
  <2>1. ((l + 1) - 1) * Line = full + Line BY <1>1, <1>5
  <2>2. full \in Int /\ full + label[l] = n /\ label[l] \in Int BY <1>1
  <2> HIDE DEF full
  <2>3. (full + Line) + label[l] = Line + n BY <2>2
  <2> QED BY <1>3, <2>1, <2>3
<1>7. (l + 1) - 1 = l /\ l + 1 > 0 /\ Line > 0 /\ Line # 0 BY <1>1
<1>8. t[l + 1] \in 1 .. Line BY <1>1, <1>3
<1> QED BY <1>2, <1>4, <1>6, <1>7, <1>8 DEF Lines, t

\* renderData cuts a text into lines.
LEMMA CutInLines == ASSUME NEW n \in Nat \ {0} PROVE Lines(Cut(n), n)
<1> USE LineAssumption
<1>1. ASSUME Line = 0 PROVE Lines(Cut(n), n)
  <2>1. Cut(n) = <<n>> BY <1>1 DEF Cut
  <2>2. <<n>> \in Seq(Nat) /\ Len(<<n>>) = 1 /\ <<n>>[1] = n OBVIOUS
  <2>3. (1 - 1) * Line + n = n OBVIOUS
  <2> QED BY <1>1, <2>1, <2>2, <2>3 DEF Lines
<1>2. ASSUME Line > 0 PROVE Lines(Cut(n), n)
  <2> DEFINE Step(g, k) == IF k > Line THEN <<Line>> \o g[k - Line]
                           ELSE IF k > 0 THEN <<k>> ELSE <<>>
             Solves(g, m) == g = [k \in 0 .. m |-> Step(g, k)]
             S == {m \in Nat : \E g : Solves(g, m)}
             lines == CHOOSE g : Solves(g, n)
  <2>1. 0 \in S
    <3>1. Solves([k \in 0 .. 0 |-> <<>>], 0) BY <1>2
    <3> HIDE DEF Solves
    <3> QED BY <3>1
  <2>2. ASSUME NEW m \in S PROVE m + 1 \in S
    <3> DEFINE h(g) == [k \in 0 .. m + 1 |-> IF k = m + 1 THEN Step(g, m + 1) ELSE g[k]]
    <3>1. m \in Nat /\ \E g : Solves(g, m)
      <4> HIDE DEF Solves
      <4> QED OBVIOUS
    <3>2. PICK g : Solves(g, m)
      <4> HIDE DEF Solves
      <4> QED BY <3>1
    <3>3. \A k \in 0 .. m : g[k] = Step(g, k)
      <4> HIDE DEF Step
      <4> QED BY <3>2
    <3>4. ASSUME NEW k \in 0 .. m + 1 PROVE h(g)[k] = Step(h(g), k)
      <4>1. h(g)[k] = Step(g, k)
        <5>1. k = m + 1 \/ k \in 0 .. m BY <3>1
        <5> HIDE DEF Step
        <5> QED BY <3>3, <5>1
      <4>2. k > Line => h(g)[k - Line] = g[k - Line]
        <5> SUFFICES ASSUME k > Line PROVE h(g)[k - Line] = g[k - Line] OBVIOUS
        <5>1. k - Line \in 0 .. m + 1 /\ k - Line # m + 1 BY <1>2, <3>1
        <5> QED BY <5>1
      <4> HIDE DEF h
      <4> QED BY <4>1, <4>2
    <3>5. Solves(h(g), m + 1)
      <4>1. DOMAIN h(g) = 0 .. m + 1 /\ h(g) = [k \in DOMAIN h(g) |-> h(g)[k]] OBVIOUS
      <4> HIDE DEF h, Step
      <4> QED BY <3>4, <4>1
    <3> HIDE DEF Solves, h
    <3> QED BY <3>1, <3>5
  <2>3. Solves(lines, n)
    <3> HIDE DEF Solves
    <3>1. S = Nat
      <4> HIDE DEF S
      <4>1. S \in SUBSET Nat BY DEF S
      <4> QED BY <2>1, <2>2, <4>1, SetInduction
    <3>2. \E g : Solves(g, n) BY <3>1
    <3> QED BY <3>2
  <2>4. Cut(n) = lines[n] BY <1>2 DEF Cut
  <2> HIDE DEF lines
  <2>5. \A k \in 0 .. n : lines[k] = Step(lines, k)
    <3> HIDE DEF Step
    <3> QED BY <2>3
  <2> DEFINE T == {m \in Nat : \A k \in 1 .. m : k <= n => Lines(lines[k], k)}
  <2>6. 0 \in T OBVIOUS
  <2>7. ASSUME NEW m \in T PROVE m + 1 \in T
    <3> SUFFICES ASSUME m + 1 <= n PROVE Lines(lines[m + 1], m + 1)
      <4>1. \A k \in 1 .. m + 1 : k = m + 1 \/ k \in 1 .. m OBVIOUS
      <4> QED BY <4>1
    <3>1. lines[m + 1] = Step(lines, m + 1)
      <4>1. m + 1 \in 0 .. n OBVIOUS
      <4> HIDE DEF Step
      <4> QED BY <2>5, <4>1
    <3>2. CASE m + 1 > Line
      <4>1. m + 1 - Line \in 1 .. m /\ m + 1 - Line <= n /\ m + 1 - Line \in Nat
            /\ Line + (m + 1 - Line) = m + 1
        BY <1>2, <3>2
      <4>2. Lines(lines[m + 1 - Line], m + 1 - Line) BY <4>1
      <4>3. lines[m + 1] = <<Line>> \o lines[m + 1 - Line] BY <3>1, <3>2
      <4>4. Line \in Nat \ {0} BY <1>2
      <4>5. Lines(<<Line>> \o lines[m + 1 - Line], Line + (m + 1 - Line))
        BY <4>1, <4>2, <4>4, LineBefore
      <4> QED BY <4>1, <4>3, <4>5
    <3>3. CASE ~(m + 1 > Line)
      <4>1. lines[m + 1] = <<m + 1>> BY <3>1, <3>3
      <4>2. <<m + 1>> \in Seq(Nat) /\ Len(<<m + 1>>) = 1 /\ <<m + 1>>[1] = m + 1 OBVIOUS
      <4>3. (1 - 1) * Line + (m + 1) = m + 1 /\ m + 1 \in 1 .. Line BY <3>3
      <4>4. \A i \in 1 .. 1 - 1 : FALSE OBVIOUS
      <4> QED BY <1>2, <4>1, <4>2, <4>3, <4>4 DEF Lines
    <3> QED BY <3>2, <3>3
  <2>8. T = Nat
    <3> HIDE DEF T
    <3>1. T \in SUBSET Nat BY DEF T
    <3> QED BY <2>6, <2>7, <3>1, SetInduction
  <2>9. n \in 1 .. n OBVIOUS
  <2>10. Lines(lines[n], n) BY <2>8, <2>9
  <2> QED BY <2>4, <2>10
<1> QED BY <1>1, <1>2

\* What the statements of a graph consist of.
GraphParts(d) ==
  /\ \A i \in 1 .. Len(d.triples) :
       /\ d.triples[i] \in Statements({0}, {0})
       /\ {d.triples[i].subject, d.triples[i].object} \subseteq NodeSet(d)
  /\ \A i \in 1 .. Len(d.data) : /\ d.data[i] \in Statements(Nat \ {0}, Nat)
                                 /\ d.data[i].subject \in NodeSet(d)
  /\ NodeSet(d) \subseteq URIs /\ IsFiniteSet(NodeSet(d))
  /\ \A i \in 1 .. Len(d.data) : <<"_:d", i>> \notin NodeSet(d)

\* The nodes of a graph are those of its statements.
LEMMA NodesAreURIs == ASSUME NEW d, GraphData(d) PROVE GraphParts(d)
<1>1. /\ d.triples \in Seq(Statements({0}, {0})) /\ DOMAIN d.triples = 1 .. Len(d.triples)
      /\ d.data \in Seq(Statements(Nat \ {0}, Nat)) /\ DOMAIN d.data = 1 .. Len(d.data)
      /\ Len(d.triples) \in Nat /\ Len(d.data) \in Nat
  BY DEF GraphData
<1>2. \A i \in 1 .. Len(d.triples) : d.triples[i] \in Statements({0}, {0}) BY <1>1
<1>3. \A i \in 1 .. Len(d.data) : d.data[i] \in Statements(Nat \ {0}, Nat) BY <1>1
<1> DEFINE A == {d.triples[i].subject : i \in 1 .. Len(d.triples)}
           B == {d.triples[i].object : i \in 1 .. Len(d.triples)}
           C == {d.data[i].subject : i \in 1 .. Len(d.data)}
<1>4. ToSet(d.triples) = {d.triples[i] : i \in 1 .. Len(d.triples)}
      /\ ToSet(d.data) = {d.data[i] : i \in 1 .. Len(d.data)}
  BY <1>1 DEF ToSet
<1>5. NodeSet(d) = A \union B \union C
  <2> DEFINE U == UNION {{t.subject, t.object} : t \in ToSet(d.triples)}
             V == {t.subject : t \in ToSet(d.data)}
  <2>1. U = A \union B BY <1>4
  <2>2. V = C BY <1>4
  <2>3. NodeSet(d) = V \union U BY DEF NodeSet
  <2> HIDE DEF A, B, C, U, V
  <2> QED BY <2>1, <2>2, <2>3
<1>6. A \subseteq URIs /\ B \subseteq URIs /\ C \subseteq URIs BY <1>2, <1>3 DEF Statements
<1>7. IsFiniteSet(A) /\ IsFiniteSet(B) /\ IsFiniteSet(C)
  <2>1. IsFiniteSet(1 .. Len(d.triples)) /\ IsFiniteSet(1 .. Len(d.data))
    BY <1>1, FS_Interval
  <2>2. [i \in 1 .. Len(d.triples) |-> d.triples[i].subject] \in Surjection(1 .. Len(d.triples), A)
        /\ [i \in 1 .. Len(d.triples) |-> d.triples[i].object] \in Surjection(1 .. Len(d.triples), B)
        /\ [i \in 1 .. Len(d.data) |-> d.data[i].subject] \in Surjection(1 .. Len(d.data), C)
    BY DEF Surjection
  <2> HIDE DEF A, B, C
  <2> QED BY <2>1, <2>2, FS_Surjection
<1>8. \A i \in 1 .. Len(d.triples) : d.triples[i].subject \in A /\ d.triples[i].object \in B
  OBVIOUS
<1>9. \A i \in 1 .. Len(d.data) : d.data[i].subject \in C OBVIOUS
<1> HIDE DEF A, B, C
<1>10. IsFiniteSet(NodeSet(d))
  <2>1. IsFiniteSet(A \union B) BY <1>7, FS_Union
  <2> QED BY <1>5, <1>7, <2>1, FS_Union
<1>11. NodeSet(d) \subseteq URIs BY <1>5, <1>6
<1>12. \A i \in 1 .. Len(d.data) : <<"_:d", i>> \notin NodeSet(d) BY <1>11 DEF GraphData
<1> QED BY <1>2, <1>3, <1>5, <1>8, <1>9, <1>10, <1>11, <1>12 DEF GraphParts

\* The nodes and edges of a graph, as graph.ts adds them.
LEMMA GraphIs ==
  ASSUME NEW d, GraphData(d)
  PROVE  LET m == Len(d.triples)
             n == Len(d.data)
             g == Graph(d)
         IN /\ m \in Nat /\ n \in Nat
            /\ g.nodes = {Ellipse(x) : x \in NodeSet(d)} \union {Box(i, d.data[i]) : i \in 1 .. n}
            /\ DOMAIN g.edges = 1 .. m + n /\ Len(g.edges) = m + n
            /\ \A i \in 1 .. m : g.edges[i] =
                 Edge(d.triples[i].subject, d.triples[i].predicate, d.triples[i].object)
            /\ \A i \in 1 .. n : g.edges[m + i] =
                 Edge(d.data[i].subject, d.data[i].predicate, <<"_:d", i>>)
            /\ DOMAIN d.triples = 1 .. m /\ DOMAIN d.data = 1 .. n
<1> DEFINE m == Len(d.triples)
           n == Len(d.data)
           E == {Edge(t, p, h) : t \in URIs, p \in URIs,
                                 h \in URIs \union {<<"_:d", i>> : i \in 1 .. n}}
           first == [i \in 1 .. m |->
                       Edge(d.triples[i].subject, d.triples[i].predicate, d.triples[i].object)]
           second == [i \in 1 .. n |->
                        Edge(d.data[i].subject, d.data[i].predicate, <<"_:d", i>>)]
<1>1. /\ m \in Nat /\ n \in Nat /\ DOMAIN d.triples = 1 .. m /\ DOMAIN d.data = 1 .. n
      /\ \A i \in 1 .. m : d.triples[i] \in Statements({0}, {0})
      /\ \A i \in 1 .. n : d.data[i] \in Statements(Nat \ {0}, Nat)
  BY DEF GraphData
<1>2. Graph(d).nodes = {Ellipse(x) : x \in NodeSet(d)} \union {Box(i, d.data[i]) : i \in 1 .. n}
      /\ Graph(d).edges = first \o second
  BY DEF Graph
<1>3. first \in [1 .. m -> E] /\ second \in [1 .. n -> E]
  <2>1. \A i \in 1 .. m :
          Edge(d.triples[i].subject, d.triples[i].predicate, d.triples[i].object) \in E
    BY <1>1 DEF Statements
  <2>2. \A i \in 1 .. n : Edge(d.data[i].subject, d.data[i].predicate, <<"_:d", i>>) \in E
    BY <1>1 DEF Statements
  <2> HIDE DEF E
  <2> QED BY <2>1, <2>2
<1>4. /\ \A i \in 1 .. m : first[i] =
           Edge(d.triples[i].subject, d.triples[i].predicate, d.triples[i].object)
      /\ \A i \in 1 .. n : second[i] = Edge(d.data[i].subject, d.data[i].predicate, <<"_:d", i>>)
  OBVIOUS
<1> HIDE DEF m, n, E, first, second
<1>5. first \in Seq(E) /\ Len(first) = m /\ second \in Seq(E) /\ Len(second) = n
  BY <1>1, <1>3
<1> DEFINE both == first \o second
<1>6. DOMAIN both = 1 .. m + n /\ Len(both) = m + n BY <1>1, <1>5
<1>7. (\A i \in 1 .. m : both[i] = first[i]) /\ \A i \in 1 .. n : both[m + i] = second[i]
  BY <1>1, <1>5
<1> HIDE DEF both
<1>8. Graph(d).edges = both BY <1>2 DEF both
<1> QED BY <1>1, <1>2, <1>4, <1>6, <1>7, <1>8 DEF m, n
\* An ellipse and a box can be told apart.
LEMMA NodesDiffer ==
  /\ \A x : Ellipse(x).shape = "ellipse" /\ Ellipse(x).name = x
  /\ \A i, d : /\ Box(i, d).shape = "box" /\ Box(i, d).name = <<"_:d", i>>
               /\ Box(i, d).label = Cut(RenderedLength(d))
  /\ \A i, j : <<"_:d", i>> = <<"_:d", j>> => i = j
<1>1. \A i, j : <<"_:d", i>> = <<"_:d", j>> => i = j OBVIOUS
<1>2. \A x : Ellipse(x).shape = "ellipse" /\ Ellipse(x).name = x BY DEF Ellipse
<1>3. \A i, d : /\ Box(i, d).shape = "box" /\ Box(i, d).name = <<"_:d", i>>
                /\ Box(i, d).label = Cut(RenderedLength(d))
  BY DEF Box
<1> QED BY <1>1, <1>2, <1>3

\* Every datum has a box of its own.
LEMMA BoxPerDatum ==
  ASSUME NEW d, GraphData(d)
  PROVE  /\ Boxes(Graph(d)) = {Box(i, d.data[i]) : i \in 1 .. Len(d.data)}
         /\ IsFiniteSet(Boxes(Graph(d))) /\ Cardinality(Boxes(Graph(d))) = Len(d.data)
<1> DEFINE n == Len(d.data)
           box == [i \in 1 .. n |-> Box(i, d.data[i])]
<1>1. /\ n \in Nat
      /\ Graph(d).nodes = {Ellipse(x) : x \in NodeSet(d)} \union {Box(i, d.data[i]) : i \in 1 .. n}
  BY GraphIs
<1>2. Boxes(Graph(d)) = {Box(i, d.data[i]) : i \in 1 .. n}
  <2>1. \A x \in NodeSet(d) : Ellipse(x).shape # "box" BY NodesDiffer
  <2>2. \A i \in 1 .. n : Box(i, d.data[i]).shape = "box" BY NodesDiffer
  <2> QED BY <1>1, <2>1, <2>2 DEF Boxes
<1>3. box \in Bijection(1 .. n, Boxes(Graph(d)))
  <2>1. /\ box \in [1 .. n -> Boxes(Graph(d))]
        /\ \A b \in Boxes(Graph(d)) : \E i \in 1 .. n : box[i] = b
    BY <1>2
  <2>2. \A i, j \in 1 .. n : box[i] = box[j] => i = j
    <3>1. \A i \in 1 .. n : box[i].name = <<"_:d", i>> BY NodesDiffer
    <3> HIDE DEF box
    <3> QED BY <3>1, NodesDiffer
  <2> HIDE DEF box, n
  <2> QED BY <2>1, <2>2 DEF Bijection, Injection, Surjection, IsInjective
<1>4. IsFiniteSet(1 .. n) /\ Cardinality(1 .. n) = n
  <2> HIDE DEF n, box
  <2>1. n \in Nat BY <1>1
  <2> QED BY <2>1, FS_Interval
<1>5. ExistsBijection(1 .. n, Boxes(Graph(d))) BY <1>3 DEF ExistsBijection
<1> QED BY <1>2, <1>4, <1>5, FS_Bijection

\* No two nodes have the same name.
LEMMA NamesAreUnique ==
  ASSUME NEW d, GraphData(d)
  PROVE  Cardinality(NodeNames(Graph(d))) = Cardinality(Graph(d).nodes)
<1> DEFINE n == Len(d.data)
           nodes == Graph(d).nodes
           ellipses == {Ellipse(x) : x \in NodeSet(d)}
           name == [x \in nodes |-> x.name]
<1>1. /\ nodes = ellipses \union Boxes(Graph(d))
      /\ Boxes(Graph(d)) = {Box(i, d.data[i]) : i \in 1 .. n}
  BY GraphIs, BoxPerDatum
<1>2. IsFiniteSet(nodes)
  <2>1. IsFiniteSet(NodeSet(d)) BY NodesAreURIs DEF GraphParts
  <2>2. [x \in NodeSet(d) |-> Ellipse(x)] \in Surjection(NodeSet(d), ellipses)
    BY DEF Surjection
  <2> HIDE DEF ellipses
  <2>3. IsFiniteSet(ellipses) BY <2>1, <2>2, FS_Surjection
  <2>4. IsFiniteSet(Boxes(Graph(d))) BY BoxPerDatum
  <2>5. IsFiniteSet(ellipses \union Boxes(Graph(d))) BY <2>3, <2>4, FS_Union
  <2> QED BY <1>1, <2>5
<1>3. \A x, y \in nodes : x.name = y.name => x = y
  <2> DEFINE boxes == Boxes(Graph(d))
  <2>1. \A a \in ellipses : a.name \in NodeSet(d) /\ a = Ellipse(a.name)
    BY NodesDiffer
  <2>2. \A b \in boxes : \E i \in 1 .. n : b.name = <<"_:d", i>> /\ b = Box(i, d.data[i])
    BY <1>1, NodesDiffer
  <2>3. \A i \in 1 .. n : <<"_:d", i>> \notin NodeSet(d) BY NodesAreURIs DEF GraphParts
  <2>4. nodes = ellipses \union boxes BY <1>1
  <2>5. \A i, j \in 1 .. n : <<"_:d", i>> = <<"_:d", j>> => i = j BY NodesDiffer
  <2> HIDE DEF nodes, ellipses, boxes, n
  <2> SUFFICES ASSUME NEW x \in nodes, NEW y \in nodes, x.name = y.name PROVE x = y OBVIOUS
  <2>6. CASE x \in ellipses /\ y \in ellipses BY <2>1, <2>6
  <2>7. CASE x \in boxes /\ y \in boxes BY <2>2, <2>5, <2>7
  <2>8. CASE x \in ellipses /\ y \in boxes BY <2>1, <2>2, <2>3, <2>8
  <2>9. CASE x \in boxes /\ y \in ellipses BY <2>1, <2>2, <2>3, <2>9
  <2> QED BY <2>4, <2>6, <2>7, <2>8, <2>9
<1>4. name \in Bijection(nodes, NodeNames(Graph(d)))
  <2>1. /\ name \in [nodes -> NodeNames(Graph(d))]
        /\ \A t \in NodeNames(Graph(d)) : \E x \in nodes : name[x] = t
    BY DEF NodeNames
  <2>2. \A x, y \in nodes : name[x] = name[y] => x = y BY <1>3
  <2> HIDE DEF nodes, name
  <2> QED BY <2>1, <2>2 DEF Bijection, Injection, Surjection, IsInjective
<1>5. ExistsBijection(nodes, NodeNames(Graph(d))) BY <1>4 DEF ExistsBijection
<1> QED BY <1>2, <1>5, FS_Bijection

\* Every edge joins two nodes.
LEMMA EdgesJoinNodes ==
  ASSUME NEW d, GraphData(d), NEW e \in ToSet(Graph(d).edges)
  PROVE  e.tail \in NodeNames(Graph(d)) /\ e.head \in NodeNames(Graph(d))
<1> DEFINE m == Len(d.triples)
           n == Len(d.data)
           g == Graph(d)
<1>1. /\ m \in Nat /\ n \in Nat /\ DOMAIN g.edges = 1 .. m + n
      /\ g.nodes = {Ellipse(x) : x \in NodeSet(d)} \union {Box(i, d.data[i]) : i \in 1 .. n}
      /\ \A i \in 1 .. m : g.edges[i] =
           Edge(d.triples[i].subject, d.triples[i].predicate, d.triples[i].object)
      /\ \A i \in 1 .. n : g.edges[m + i] =
           Edge(d.data[i].subject, d.data[i].predicate, <<"_:d", i>>)
  BY GraphIs
<1>2. \A x \in NodeSet(d) : x \in NodeNames(Graph(d)) BY <1>1, NodesDiffer DEF NodeNames
<1>3. \A i \in 1 .. n : <<"_:d", i>> \in NodeNames(Graph(d))
  <2> SUFFICES ASSUME NEW i \in 1 .. n PROVE <<"_:d", i>> \in NodeNames(Graph(d)) OBVIOUS
  <2>1. Box(i, d.data[i]) \in g.nodes BY <1>1
  <2>2. Box(i, d.data[i]).name = <<"_:d", i>> BY NodesDiffer
  <2> QED BY <2>1, <2>2 DEF NodeNames
<1>4. /\ \A i \in 1 .. m : d.triples[i].subject \in NodeSet(d) /\ d.triples[i].object \in NodeSet(d)
      /\ \A i \in 1 .. n : d.data[i].subject \in NodeSet(d)
  BY NodesAreURIs DEF GraphParts
<1> HIDE DEF m, n, g
<1>5. PICK i \in 1 .. m + n : e = g.edges[i] BY <1>1 DEF ToSet, g
<1>6. CASE i \in 1 .. m
  <2>1. e = Edge(d.triples[i].subject, d.triples[i].predicate, d.triples[i].object)
    BY <1>1, <1>5, <1>6
  <2>2. e.tail = d.triples[i].subject /\ e.head = d.triples[i].object BY <2>1 DEF Edge
  <2> QED BY <1>2, <1>4, <1>6, <2>2
<1>7. CASE i \notin 1 .. m
  <2>1. i - m \in 1 .. n /\ m + (i - m) = i BY <1>1, <1>7
  <2>2. e = Edge(d.data[i - m].subject, d.data[i - m].predicate, <<"_:d", i - m>>)
    BY <1>1, <1>5, <2>1
  <2>3. e.tail = d.data[i - m].subject /\ e.head = <<"_:d", i - m>> BY <2>2 DEF Edge
  <2> QED BY <1>2, <1>3, <1>4, <2>1, <2>3
<1> QED BY <1>6, <1>7

\* A triple has as many edges as it is stated.
LEMMA EdgesPerTriple ==
  ASSUME NEW d, GraphData(d), NEW t \in ToSet(d.triples)
  PROVE  LET edges == Graph(d).edges
         IN  {i \in DOMAIN edges : edges[i] = Edge(t.subject, t.predicate, t.object)}
               = {i \in DOMAIN d.triples : d.triples[i] = t}
<1> DEFINE m == Len(d.triples)
           n == Len(d.data)
           edges == Graph(d).edges
<1>1. /\ m \in Nat /\ n \in Nat /\ DOMAIN edges = 1 .. m + n /\ DOMAIN d.triples = 1 .. m
      /\ \A i \in 1 .. m : edges[i] =
           Edge(d.triples[i].subject, d.triples[i].predicate, d.triples[i].object)
      /\ \A i \in 1 .. n : edges[m + i] =
           Edge(d.data[i].subject, d.data[i].predicate, <<"_:d", i>>)
  BY GraphIs
<1>2. /\ \A i \in 1 .. m : d.triples[i] \in Statements({0}, {0}) /\ d.triples[i].object \in NodeSet(d)
      /\ \A i \in 1 .. n : <<"_:d", i>> \notin NodeSet(d)
  BY NodesAreURIs DEF GraphParts
<1> HIDE DEF m, n, edges
<1>3. PICK j \in 1 .. m : t = d.triples[j] BY <1>1 DEF ToSet
<1>4. t \in Statements({0}, {0}) /\ t.object \in NodeSet(d) BY <1>2, <1>3
<1>5. \A a, b, c, x, y, z : Edge(a, b, c) = Edge(x, y, z) => a = x /\ b = y /\ c = z
  <2> SUFFICES ASSUME NEW a, NEW b, NEW c, NEW x, NEW y, NEW z, Edge(a, b, c) = Edge(x, y, z)
               PROVE  a = x /\ b = y /\ c = z
    OBVIOUS
  <2>1. Edge(a, b, c).tail = a /\ Edge(a, b, c).label = b /\ Edge(a, b, c).head = c
    BY DEF Edge
  <2>2. Edge(x, y, z).tail = x /\ Edge(x, y, z).label = y /\ Edge(x, y, z).head = z
    BY DEF Edge
  <2> QED BY <2>1, <2>2
<1>6. ASSUME NEW i \in 1 .. m
      PROVE  edges[i] = Edge(t.subject, t.predicate, t.object) <=> d.triples[i] = t
  <2>1. d.triples[i] \in Statements({0}, {0}) BY <1>2
  <2>2. ASSUME edges[i] = Edge(t.subject, t.predicate, t.object) PROVE d.triples[i] = t
    <3>1. /\ d.triples[i].subject = t.subject /\ d.triples[i].predicate = t.predicate
          /\ d.triples[i].object = t.object
      BY <1>1, <1>5, <2>2
    <3> QED BY <1>4, <2>1, <3>1 DEF Statements
  <2> QED BY <1>1, <2>2
<1>7. ASSUME NEW i \in m + 1 .. m + n
      PROVE  edges[i] # Edge(t.subject, t.predicate, t.object)
  <2>1. i - m \in 1 .. n /\ m + (i - m) = i BY <1>1
  <2>2. edges[i] = Edge(d.data[i - m].subject, d.data[i - m].predicate, <<"_:d", i - m>>)
    BY <1>1, <2>1
  <2>3. <<"_:d", i - m>> \notin NodeSet(d) BY <1>2, <2>1
  <2> QED BY <1>4, <1>5, <2>2, <2>3
<1>8. 1 .. m + n = (1 .. m) \union (m + 1 .. m + n) BY <1>1
<1>9. {i \in 1 .. m + n : edges[i] = Edge(t.subject, t.predicate, t.object)}
      = {i \in 1 .. m : d.triples[i] = t}
  BY <1>6, <1>7, <1>8
<1> QED BY <1>1, <1>9 DEF edges

\* A box has one edge, and shows the text of its datum in lines.
LEMMA EdgePerBox ==
  ASSUME NEW d, GraphData(d), NEW j \in 1 .. Len(d.data)
  PROVE  LET edges == Graph(d).edges
             b == Box(j, d.data[j])
         IN  /\ Cardinality({i \in DOMAIN edges : edges[i].head = b.name}) = 1
             /\ Edge(d.data[j].subject, d.data[j].predicate, b.name) \in ToSet(edges)
             /\ RenderedLength(d.data[j]) \in Nat \ {0}
             /\ Lines(b.label, RenderedLength(d.data[j]))
<1> DEFINE m == Len(d.triples)
           n == Len(d.data)
           edges == Graph(d).edges
           b == Box(j, d.data[j])
<1>1. /\ m \in Nat /\ n \in Nat /\ DOMAIN edges = 1 .. m + n
      /\ \A i \in 1 .. m : edges[i] =
           Edge(d.triples[i].subject, d.triples[i].predicate, d.triples[i].object)
      /\ \A i \in 1 .. n : edges[m + i] =
           Edge(d.data[i].subject, d.data[i].predicate, <<"_:d", i>>)
  BY GraphIs
<1>2. /\ \A i \in 1 .. m : d.triples[i].object \in NodeSet(d)
      /\ \A i \in 1 .. n : <<"_:d", i>> \notin NodeSet(d)
      /\ d.data[j] \in Statements(Nat \ {0}, Nat)
  BY NodesAreURIs DEF GraphParts
<1>3. b.name = <<"_:d", j>> /\ b.label = Cut(RenderedLength(d.data[j])) BY NodesDiffer
<1>4. RenderedLength(d.data[j]) \in Nat \ {0}
  <2>1. d.data[j].length \in Nat \ {0} /\ d.data[j].language \in Nat BY <1>2 DEF Statements
  <2> QED BY <2>1 DEF RenderedLength
<1>5. Lines(b.label, RenderedLength(d.data[j])) BY <1>3, <1>4, CutInLines
<1>6. \A a, x, y : Edge(a, x, y).head = y BY DEF Edge
<1> HIDE DEF m, edges, b
<1>7. m + j \in 1 .. m + n BY <1>1
<1>8. edges[m + j] = Edge(d.data[j].subject, d.data[j].predicate, b.name) BY <1>1, <1>3
<1>9. Edge(d.data[j].subject, d.data[j].predicate, b.name) \in ToSet(edges)
  BY <1>1, <1>7, <1>8 DEF ToSet
<1>10. ASSUME NEW i \in 1 .. m + n, edges[i].head = b.name PROVE i = m + j
  <2>1. CASE i \in 1 .. m
    <3>1. edges[i].head = d.triples[i].object BY <1>1, <1>6, <2>1
    <3> QED BY <1>2, <1>3, <1>10, <2>1, <3>1
  <2>2. CASE i \notin 1 .. m
    <3>1. i - m \in 1 .. n /\ m + (i - m) = i BY <1>1, <2>2
    <3>2. edges[i] = Edge(d.data[i - m].subject, d.data[i - m].predicate, <<"_:d", i - m>>)
      BY <1>1, <3>1
    <3>3. edges[i].head = <<"_:d", i - m>> BY <1>6, <3>2
    <3>4. i - m = j BY <1>3, <1>10, <3>3, NodesDiffer
    <3> QED BY <3>1, <3>4
  <2> QED BY <2>1, <2>2
<1>11. edges[m + j].head = b.name BY <1>6, <1>8
<1>12. {i \in 1 .. m + n : edges[i].head = b.name} = {m + j} BY <1>7, <1>10, <1>11
<1>13. Cardinality({i \in DOMAIN edges : edges[i].head = b.name}) = 1
  BY <1>1, <1>12, FS_Singleton
<1> QED BY <1>4, <1>5, <1>9, <1>13 DEF edges, b

\* What graph.ts builds of statements is their graph.
LEMMA GraphIsOfItsData == ASSUME NEW d, GraphData(d) PROVE IsGraphOf(Graph(d), d)
<1>1. Len(Graph(d).edges) = Len(d.triples) + Len(d.data) BY GraphIs
<1>2. /\ Cardinality(Boxes(Graph(d))) = Len(d.data)
      /\ Boxes(Graph(d)) = {Box(i, d.data[i]) : i \in 1 .. Len(d.data)}
  BY BoxPerDatum
<1>3. Cardinality(NodeNames(Graph(d))) = Cardinality(Graph(d).nodes) BY NamesAreUnique
<1>4. \A e \in ToSet(Graph(d).edges) : e.tail \in NodeNames(Graph(d)) /\ e.head \in NodeNames(Graph(d))
  BY EdgesJoinNodes
<1>5. ASSUME NEW t \in ToSet(d.triples)
      PROVE  Cardinality({i \in DOMAIN Graph(d).edges :
                            Graph(d).edges[i] = Edge(t.subject, t.predicate, t.object)})
               = Cardinality({i \in DOMAIN d.triples : d.triples[i] = t})
  BY EdgesPerTriple
<1>6. ASSUME NEW b \in Boxes(Graph(d))
      PROVE  /\ Cardinality({i \in DOMAIN Graph(d).edges : Graph(d).edges[i].head = b.name}) = 1
             /\ Line = 0 => Len(b.label) = 1
             /\ Line > 0 => /\ \A i \in 1 .. Len(b.label) - 1 : b.label[i] = Line
                            /\ b.label[Len(b.label)] \in 1 .. Line
  <2>1. PICK j \in 1 .. Len(d.data) : b = Box(j, d.data[j]) BY <1>2
  <2>2. /\ Cardinality({i \in DOMAIN Graph(d).edges : Graph(d).edges[i].head = b.name}) = 1
        /\ Lines(b.label, RenderedLength(d.data[j]))
    BY <2>1, EdgePerBox
  <2> QED BY <2>2 DEF Lines
<1>7. ASSUME NEW t \in ToSet(d.data)
      PROVE  \E b \in Boxes(Graph(d)), e \in ToSet(Graph(d).edges) :
               /\ e = Edge(t.subject, t.predicate, b.name)
               /\ (Len(b.label) - 1) * Line + b.label[Len(b.label)] = RenderedLength(t)
  <2>1. PICK j \in 1 .. Len(d.data) : t = d.data[j] BY DEF ToSet, GraphData
  <2> DEFINE b == Box(j, d.data[j])
  <2>2. b \in Boxes(Graph(d)) BY <1>2
  <2>3. /\ Edge(t.subject, t.predicate, b.name) \in ToSet(Graph(d).edges)
        /\ Lines(b.label, RenderedLength(t))
    BY <2>1, EdgePerBox
  <2> HIDE DEF b
  <2>4. (Len(b.label) - 1) * Line + b.label[Len(b.label)] = RenderedLength(t)
    BY <2>3 DEF Lines
  <2> QED BY <2>2, <2>3, <2>4
<1> QED BY <1>1, <1>2, <1>3, <1>4, <1>5, <1>6, <1>7 DEF IsGraphOf
\* The page of an entity holds its statements, and a graph that is shown was
\* built of them.
GraphInv ==
  /\ GraphTypeOK /\ DOMAIN drawn = Scripts
  /\ window = "entity" => \A s \in Scripts : GraphData(data[s])
  /\ \A s \in Scripts : render[s] = "shown" => window = "entity" /\ drawn[s] = Graph(data[s])

\* A graph that was built of the statements of its page is faithful.
LEMMA GraphInvSuffices == GraphInv => GraphIsFaithful
<1> SUFFICES ASSUME GraphInv, NEW s \in Scripts, render[s] = "shown"
             PROVE  IsGraphOf(Graph(data[s]), data[s])
  BY DEF GraphInv, GraphIsFaithful
<1>1. GraphData(data[s]) BY DEF GraphInv
<1> QED BY <1>1, GraphIsOfItsData

\* Before a promise is resolved no graph is shown.
LEMMA GraphInitially == Init => GraphInv
<1> SUFFICES ASSUME Init PROVE GraphInv OBVIOUS
<1>1. GraphTypeOK /\ DOMAIN drawn = Scripts /\ \A s \in Scripts : render[s] # "shown"
  BY DEF Init, GraphInit, GraphTypeOK
<1>2. window = "entity" => \A s \in Scripts : GraphData(data[s])
  BY EntitiesAssumption DEF Init
<1> QED BY <1>1, <1>2 DEF GraphInv

\* A script hands the graph of its own element to Graphviz.
LEMMA GraphKept == GraphInv /\ [Next]_vars => GraphInv'
<1> SUFFICES ASSUME GraphInv, [Next]_vars PROVE GraphInv' OBVIOUS
<1>1. ASSUME UNCHANGED <<graphVars, window>> PROVE GraphInv'
  BY <1>1 DEF GraphInv, GraphTypeOK, graphVars
<1>2. ASSUME OnEntity, NEW s \in Scripts, GraphStep(s) PROVE GraphInv'
  <2>1. window = "entity" /\ window' = window /\ UNCHANGED data
    BY <1>2 DEF OnEntity, GraphStep, Render, Reject, Show, ShowFailure
  <2>2. GraphTypeOK' /\ DOMAIN drawn' = Scripts
    BY <1>2 DEF GraphInv, GraphTypeOK, GraphStep, Render, Reject, Show, ShowFailure
  <2>3. CASE Show(s)
    <3>1. ASSUME NEW x \in Scripts, render'[x] = "shown" PROVE drawn'[x] = Graph(data'[x])
      BY <2>1, <2>3, <3>1 DEF GraphInv, GraphTypeOK, Show
    <3> QED BY <2>1, <2>2, <3>1 DEF GraphInv
  <2>4. CASE Render(s) \/ Reject(s) \/ ShowFailure(s)
    <3>1. UNCHANGED drawn /\ \A x \in Scripts : render'[x] = "shown" => render[x] = "shown"
      BY <2>4 DEF GraphInv, GraphTypeOK, Render, Reject, ShowFailure
    <3> QED BY <2>1, <2>2, <3>1 DEF GraphInv
  <2> QED BY <1>2, <2>3, <2>4 DEF GraphStep
<1> QED BY <1>1, <1>2 DEF Next, vars, OnEntity

----------------------------------------------------------------------------
(* The message to TIPSY *)

\* The handler is registered from onload until the frame has said it is ready
\* and the message was handled; no one else can say so.
Handshake ==
  /\ page \in {"loading", "framed", "error"} /\ listening \in BOOLEAN
  /\ frame \in {"none", "attached", "ready"}
  /\ inbox \in [Sources \X Kinds -> 0 .. MaxInbox] /\ sent \in [Sources -> Nat]
  /\ page = "framed" <=> frame # "none"
  /\ listening => page = "framed" /\ sent[Frame] = 0
  /\ inbox[<<Frame, "tipsy:ready">>] > 0 => frame = "ready"
  /\ DataSentOnce

\* Before onload nothing was sent and nothing arrived.
LEMMA HandshakeInitially == TipsyInit => Handshake
<1> SUFFICES ASSUME TipsyInit PROVE Handshake OBVIOUS
<1>1. <<Frame, "tipsy:ready">> \in Sources \X Kinds BY FrameAssumption DEF Kinds
<1>2. /\ inbox[<<Frame, "tipsy:ready">>] = 0 /\ inbox \in [Sources \X Kinds -> 0 .. MaxInbox]
      /\ sent \in [Sources -> Nat] /\ \A w \in Sources : sent[w] = 0
  BY <1>1, FrameAssumption DEF TipsyInit
<1>3. page = "loading" /\ listening = FALSE /\ frame = "none" BY DEF TipsyInit
<1>4. DataSentOnce BY <1>2, <1>3, FrameAssumption DEF DataSentOnce
<1>5. /\ page \in {"loading", "framed", "error"} /\ listening \in BOOLEAN
      /\ frame \in {"none", "attached", "ready"}
      /\ page = "framed" <=> frame # "none"
  BY <1>3
<1>6. listening => page = "framed" /\ sent[Frame] = 0 BY <1>3
<1>7. inbox[<<Frame, "tipsy:ready">>] > 0 => frame = "ready" BY <1>2
<1> QED BY <1>2, <1>4, <1>5, <1>6, <1>7 DEF Handshake

\* Nothing is sent to a frame that is not ready.
LEMMA SentOnlyToReady == ASSUME Handshake, frame # "ready" PROVE sent[Frame] = 0
<1>1. sent \in [Sources -> Nat] /\ DataSentOnce BY DEF Handshake
<1>2. sent[Frame] \in Nat BY <1>1, FrameAssumption
<1>3. sent[Frame] <= 1 /\ sent[Frame] # 1 BY <1>1 DEF DataSentOnce
<1> QED BY <1>2, <1>3

\* onload, once the page has its data, listens and inserts the frame.
LEMMA OnLoadKeepsHandshake == Handshake /\ OnLoad => Handshake'
<1> SUFFICES ASSUME Handshake, OnLoad PROVE Handshake' OBVIOUS
<1>1. /\ page = "loading" /\ frame = "none" /\ listening = FALSE
      /\ sent[Frame] \in Nat /\ UNCHANGED <<inbox, sent>>
  BY FrameAssumption DEF OnLoad, Handshake
<1>2. sent[Frame] = 0 BY <1>1, SentOnlyToReady
<1>3. CASE dataset
  <2>1. page' = "framed" /\ listening' = TRUE /\ frame' = "attached" BY <1>3 DEF OnLoad
  <2> QED BY <1>1, <1>2, <2>1 DEF Handshake, DataSentOnce
<1>4. CASE ~dataset
  <2>1. page' = "error" /\ listening' = FALSE /\ frame' = "none" BY <1>1, <1>4 DEF OnLoad
  <2> QED BY <1>1, <1>2, <2>1 DEF Handshake, DataSentOnce
<1> QED BY <1>3, <1>4

\* Messages that arrive change the inbox, and the frame is ready when it says so.
LEMMA PostKeepsHandshake == Handshake /\ (FrameReady \/ OtherMessage) => Handshake'
<1> SUFFICES ASSUME Handshake, FrameReady \/ OtherMessage PROVE Handshake' OBVIOUS
<1> USE FrameAssumption
<1>0. <<Frame, "tipsy:ready">> \in Sources \X Kinds BY DEF Kinds
<1>1. CASE FrameReady
  <2>1. /\ inbox' = [inbox EXCEPT ![<<Frame, "tipsy:ready">>] = @ + 1]
        /\ inbox[<<Frame, "tipsy:ready">>] < MaxInbox /\ frame # "none" /\ frame' = "ready"
        /\ UNCHANGED <<dataset, page, listening, sent>>
    BY <1>1 DEF FrameReady, Post
  <2>2. /\ inbox' \in [Sources \X Kinds -> 0 .. MaxInbox]
        /\ inbox'[<<Frame, "tipsy:ready">>] > 0
    BY <1>0, <2>1 DEF Handshake
  <2> QED BY <2>1, <2>2 DEF Handshake, DataSentOnce
<1>2. CASE OtherMessage
  <2>1. PICK m \in (Sources \X Kinds) \ {<<Frame, "tipsy:ready">>} : Post(m[1], m[2])
    BY <1>2 DEF OtherMessage
  <2>2. m = <<m[1], m[2]>> BY <2>1
  <2>3. inbox' = [inbox EXCEPT ![m] = @ + 1] /\ inbox[m] < MaxInbox
    BY <2>1, <2>2 DEF Post
  <2>4. /\ inbox' \in [Sources \X Kinds -> 0 .. MaxInbox]
        /\ inbox'[<<Frame, "tipsy:ready">>] = inbox[<<Frame, "tipsy:ready">>]
    BY <1>0, <2>1, <2>3 DEF Handshake
  <2>5. UNCHANGED <<dataset, page, listening, frame, sent>> BY <1>2 DEF OtherMessage
  <2> QED BY <2>4, <2>5 DEF Handshake, DataSentOnce
<1> QED BY <1>1, <1>2

\* The message of the frame is answered when the handler is there, and the
\* handler is gone afterwards.
LEMMA HandleKeepsHandshake ==
  ASSUME Handshake, NEW from \in Sources, NEW kind \in Kinds, Handle(from, kind)
  PROVE  Handshake'
<1> USE FrameAssumption
<1>0. <<Frame, "tipsy:ready">> \in Sources \X Kinds /\ <<from, kind>> \in Sources \X Kinds
  BY DEF Kinds
<1>1. /\ inbox[<<from, kind>>] > 0 /\ inbox' = [inbox EXCEPT ![<<from, kind>>] = @ - 1]
      /\ UNCHANGED <<dataset, page, frame>>
  BY DEF Handle
<1>2. /\ inbox' \in [Sources \X Kinds -> 0 .. MaxInbox]
      /\ inbox'[<<Frame, "tipsy:ready">>] <= inbox[<<Frame, "tipsy:ready">>]
      /\ <<from, kind>> # <<Frame, "tipsy:ready">> =>
           inbox'[<<Frame, "tipsy:ready">>] = inbox[<<Frame, "tipsy:ready">>]
  BY <1>0, <1>1 DEF Handshake
<1>3. CASE listening /\ from = Frame /\ kind = "tipsy:ready"
  <2>1. listening' = FALSE /\ sent' = [sent EXCEPT ![Frame] = @ + 1] BY <1>3 DEF Handle
  <2>2. sent[Frame] = 0 /\ frame = "ready" /\ page = "framed" BY <1>1, <1>3 DEF Handshake
  <2>3. sent' \in [Sources -> Nat] /\ sent'[Frame] = 1 /\ \A w \in Sources \ {Frame} : sent'[w] = 0
    BY <2>1, <2>2 DEF Handshake, DataSentOnce
  <2>4. page' = "framed" /\ frame' = "ready" /\ ~listening' BY <1>1, <2>1, <2>2
  <2>5. DataSentOnce' BY <2>3, <2>4 DEF DataSentOnce
  <2>6. /\ page' \in {"loading", "framed", "error"} /\ listening' \in BOOLEAN
        /\ frame' \in {"none", "attached", "ready"}
        /\ page' = "framed" <=> frame' # "none"
    BY <2>1, <2>4
  <2> QED BY <1>2, <2>3, <2>4, <2>5, <2>6 DEF Handshake
<1>4. CASE ~(listening /\ from = Frame /\ kind = "tipsy:ready")
  <2>1. UNCHANGED <<listening, sent>> BY <1>4 DEF Handle
  <2>2. inbox'[<<Frame, "tipsy:ready">>] \in Nat BY <1>0, <1>2
  <2>3. CASE frame = "ready" /\ ~listening
    <3>1. DataSentOnce' BY <1>1, <1>2, <2>1, <2>2, <2>3 DEF Handshake, DataSentOnce
    <3>2. /\ page' \in {"loading", "framed", "error"} /\ listening' \in BOOLEAN
          /\ frame' \in {"none", "attached", "ready"}
          /\ sent' \in [Sources -> Nat]
          /\ page' = "framed" <=> frame' # "none"
      BY <1>1, <2>1 DEF Handshake
    <3>3. ~listening' BY <2>1, <2>3
    <3>4. frame' = "ready" BY <1>1, <2>3
    <3> QED BY <1>2, <3>1, <3>2, <3>3, <3>4 DEF Handshake
  <2>4. CASE listening
    <3>1. inbox'[<<Frame, "tipsy:ready">>] = inbox[<<Frame, "tipsy:ready">>]
      BY <1>2, <1>4, <2>4
    <3> QED BY <1>1, <1>2, <2>1, <2>4, <3>1 DEF Handshake, DataSentOnce
  <2>5. CASE frame # "ready" /\ ~listening
    <3>1. inbox'[<<Frame, "tipsy:ready">>] = 0
      BY <1>0, <1>2, <2>2, <2>5 DEF Handshake
    <3>2. /\ ~listening' /\ frame' # "ready" /\ sent' = sent /\ sent[Frame] \in Nat
          /\ frame' = frame /\ page' = page /\ listening' = listening
      BY <1>1, <2>1, <2>5 DEF Handshake
    <3>3. sent[Frame] = 0 /\ page # "framed"
      BY <2>5, SentOnlyToReady DEF Handshake, DataSentOnce
    <3> QED BY <1>2, <3>1, <3>2, <3>3 DEF Handshake, DataSentOnce
  <2> QED BY <2>3, <2>4, <2>5
<1> QED BY <1>3, <1>4

\* Each step of the page keeps the handshake.
LEMMA TipsyKeepsHandshake == Handshake /\ TipsyStep => Handshake'
BY OnLoadKeepsHandshake, PostKeepsHandshake, HandleKeepsHandshake DEF TipsyStep

----------------------------------------------------------------------------
(* The pages *)

\* What no script changes or tells apart from its own text: whether the page
\* has its data, and which of the showables are hidden.
PageInv ==
  /\ dataset \in BOOLEAN /\ hidden \in [Showables -> BOOLEAN]
  /\ toggle \in [Showables -> {"Hide", "placeholder"}]
  /\ \A x \in Showables : hidden[x] <=> toggle[x] = "placeholder"

Inv == ColorInv /\ RowsInv /\ GraphInv /\ Handshake /\ PageInv

\* The invariant holds in every initial state: a table shows an entity, or
\* nothing on the page of TIPSY.
LEMMA Initially == Init => Inv
<1> SUFFICES ASSUME Init PROVE Inv OBVIOUS
<1>1. table \in Seq(Seq(URIs))
  <2>1. << >> \in Seq(Seq(URIs)) OBVIOUS
  <2> QED BY <2>1, EntitiesAssumption DEF Init
<1>2. ColorInv /\ RowsInv BY <1>1, ColorsInitially, RowsInitially DEF Init
<1>3. GraphInv /\ Handshake BY GraphInitially, HandshakeInitially DEF Init
<1>4. PageInv BY DEF Init, TipsyInit, PageInv
<1> QED BY <1>2, <1>3, <1>4 DEF Inv

\* A click on a toggle hides or shows its element, and says the opposite.
LEMMA TogglesAgree == ASSUME PageInv, [Next]_vars PROVE PageInv'
<1>1. UNCHANGED dataset
  BY DEF Next, vars, OnEntity, tipsyVars, TipsyStep, OnLoad, FrameReady, OtherMessage, Handle
<1>2. ASSUME UNCHANGED <<hidden, toggle>> PROVE PageInv' BY <1>1, <1>2 DEF PageInv
<1>3. ASSUME NEW x \in Showables, Toggle(x) PROVE PageInv'
  BY <1>1, <1>3 DEF PageInv, Toggle
<1> QED BY <1>2, <1>3 DEF Next, vars

\* A step of one script leaves the variables of the others alone.
LEMMA InvIsKept == Inv /\ [Next]_vars => Inv'
<1> SUFFICES ASSUME Inv, [Next]_vars PROVE Inv' OBVIOUS
<1>1. ASSUME UNCHANGED tipsyVars PROVE Handshake'
  BY <1>1 DEF tipsyVars, Inv, Handshake, DataSentOnce
<1>2. ASSUME UNCHANGED tableVars PROVE ColorInv' /\ RowsInv'
  <2>1. ColorInv'
    BY <1>2 DEF tableVars, Inv, ColorInv, ColorTypeOK, ColorsInUse, Colored, Elements, Text
  <2>2. RowsInv' BY <1>2 DEF tableVars, Inv, RowsInv, WithURI, Has
  <2> QED BY <2>1, <2>2
<1>3. GraphInv' /\ PageInv' BY GraphKept, TogglesAgree DEF Inv
<1>4. CASE OnEntity /\ TableStep
  BY <1>1, <1>3, <1>4, TableKeepsColors, TableKeepsRows DEF OnEntity, Inv
<1>5. CASE OnEntity /\ UNCHANGED tableVars
  BY <1>1, <1>2, <1>3, <1>5 DEF OnEntity, Inv
<1>6. CASE TipsyStep /\ UNCHANGED tableVars
  BY <1>2, <1>3, <1>6, TipsyKeepsHandshake DEF Inv
<1>7. CASE UNCHANGED vars
  BY <1>1, <1>2, <1>3, <1>7 DEF vars, Inv
<1> QED BY <1>4, <1>5, <1>6, <1>7 DEF Next

\* The invariant covers every type: the rows are indexes, and each element
\* has the colour of its text.
LEMMA InvIsTyped == Inv => TypeOK
<1> SUFFICES ASSUME Inv PROVE TypeOK OBVIOUS
<1>1. rows \in Seq(1 .. Len(table)) /\ body \in Seq(1 .. Len(table))
  <2>1. Len(table) \in Nat /\ body = rows BY DEF Inv, RowsInv
  <2>2. rows \in [1 .. Len(table) -> 1 .. Len(table)] BY DEF Inv, RowsInv, Split
  <2> QED BY <2>1, <2>2
<1>2. style \in [Elements -> 0 .. NumColors]
  <2>1. \A e \in Elements : highlighted[Text(e)] \in 0 .. NumColors
    BY TextIsURI DEF Inv, ColorInv, ColorTypeOK
  <2> QED BY <2>1 DEF Inv, ColorInv, Colored
<1>3. TableTypeOK BY <1>1, <1>2 DEF Inv, ColorInv, ColorTypeOK, RowsInv, TableTypeOK
<1>4. GraphTypeOK BY DEF Inv, GraphInv
<1>5. TipsyTypeOK BY DEF Inv, Handshake, PageInv, TipsyTypeOK
<1> QED BY <1>3, <1>4, <1>5 DEF Inv, PageInv, TypeOK

\* The rows, the highlights, the graphs, the handshake and the toggles, in
\* every reachable state.
THEOREM InductiveInvariant == Spec => []Inv
BY Initially, InvIsKept, PTL DEF Spec

\* The variables of the scripts have their types, and a toggle holds its
\* placeholder exactly while its element is hidden.
THEOREM TypeCorrect == Spec => []TypeOK
BY InvIsTyped, InductiveInvariant, PTL

\* Whatever was clicked before, the table shows each row once, and in the order
\* of the last click that moved rows: bringToFront and resetRowOrder sort an
\* array in place, and rerenderRows moves the rows of the page one by one.
THEOREM RowsAlwaysInOrder == Spec => []RowsInOrder
<1>1. Inv => RowsInOrder BY RowsInvSuffices DEF Inv
<1> QED BY <1>1, InductiveInvariant, PTL

\* Up to NumColors highlights after a reset are pairwise different, equal URIs
\* are coloured alike, and the colours shown are those of the map.  Nothing is
\* said of more highlights than that since a reset, even if some of them were
\* switched off again (tripletable.ts:37).
THEOREM FirstHighlightsTellApart == Spec => []ColorsTellApart
<1>1. Inv => ColorsTellApart BY ColorInvSuffices DEF Inv
<1> QED BY <1>1, InductiveInvariant, PTL

\* A graph that is shown has an edge per triple of its script element, and for
\* each datum a box of its own with all of its text in lines of the given length.
THEOREM GraphsShowAllStatements == Spec => []GraphIsFaithful
<1>1. Inv => GraphIsFaithful BY GraphInvSuffices DEF Inv
<1> QED BY <1>1, InductiveInvariant, PTL

\* TIPSY gets the data once, after it was ready, and nobody else does.
THEOREM TipsyGetsDataOnce == Spec => []DataSentOnce
<1>1. Inv => DataSentOnce BY DEF Inv, Handshake
<1> QED BY <1>1, InductiveInvariant, PTL

----------------------------------------------------------------------------
(* The build *)

Bundles(v) == {Bundle(n, v) : n \in Names}
Pages(names, v) == {Page(n, v) : n \in names}

\* From the removal of dist to the bundler nothing is in it; then the bundles
\* and the pages of one version, and the pages go one by one.
DistInStep ==
  /\ step = "prepare" /\ "rm" \notin todo => dist = {}
  /\ step \in {"disclaimer", "entries", "bundle"} => dist = {}
  /\ step = "find" =>
       \E v \in 1 .. source :
         /\ dist = Bundles(v) \union Pages(todo, v)
         /\ \A n \in Names \ todo : found[n] = v
  /\ step \in {"truncate", "write"} =>
       \E v \in 1 .. source : dist = Bundles(v) /\ \A n \in Names : found[n] = v

BuildInv == BuildTypeOK /\ DistInStep /\ (built => step = "idle") /\ AssetsMatch

\* The bundles of the entries in order are what WriteAssets writes.
LEMMA NamesOfEntries == \A i \in 1 .. Len(Entrypoints) : Entrypoints[i] \in Names
BY DEF Names

\* A source generated for an earlier version is one for a later version, too.
LEMMA FilesGrow ==
  ASSUME NEW s \in Nat, NEW t \in Nat, s <= t,
         NEW a \in Seq([kind : {"bundle", "page"}, name : Names, version : 1 .. s])
  PROVE  a \in Seq([kind : {"bundle", "page"}, name : Names, version : 1 .. t])
<1> DEFINE A == [kind : {"bundle", "page"}, name : Names, version : 1 .. s]
           B == [kind : {"bundle", "page"}, name : Names, version : 1 .. t]
<1>1. A \subseteq B OBVIOUS
<1>2. a \in Seq(A) OBVIOUS
<1> HIDE DEF A, B
<1>3. \A i \in 1 .. Len(a) : a[i] \in B BY <1>1, <1>2
<1>4. a \in Seq(B) BY <1>2, <1>3
<1> QED BY <1>4 DEF B

\* The invariant holds before the first run.
LEMMA BuildInitially == BuildInit => BuildInv
<1> SUFFICES ASSUME BuildInit PROVE BuildInv OBVIOUS
<1>1. << >> \in Seq(Files) OBVIOUS
<1>2. BuildTypeOK
  <2>1. source \in 1 .. MaxEdits + 1 BY EntryAssumption DEF BuildInit
  <2>2. entryDir \in [exists : BOOLEAN, files : SUBSET Names] BY DEF BuildInit
  <2>3. found \in [Names -> 0 .. source] BY <2>1 DEF BuildInit
  <2> QED BY <1>1, <2>1, <2>2, <2>3 DEF BuildInit, BuildTypeOK
<1>3. DistInStep BY DEF BuildInit, DistInStep
<1>4. AssetsMatch BY DEF BuildInit, AssetsMatch
<1> QED BY <1>2, <1>3, <1>4 DEF BuildInit, BuildInv

\* An edit of the sources changes nothing the script has done.
LEMMA EditKeepsInv == BuildInv /\ EditSources => BuildInv'
<1> SUFFICES ASSUME BuildInv, EditSources PROVE BuildInv' OBVIOUS
<1>0. /\ source \in Nat /\ source' = source + 1 /\ source' \in 1 .. MaxEdits + 1
      /\ UNCHANGED <<step, todo, entryDir, dist, found, assetsDist, built>>
      /\ 1 .. source \subseteq 1 .. source'
  BY EntryAssumption DEF BuildInv, BuildTypeOK, EditSources
<1>1. dist \subseteq Files' /\ found \in [Names -> 0 .. source'] /\ assetsDist \in Seq(Files')
  <2>1. dist \subseteq Files' BY <1>0 DEF BuildInv, BuildTypeOK, Files
  <2>2. found \in [Names -> 0 .. source'] BY <1>0 DEF BuildInv, BuildTypeOK
  <2>3. assetsDist \in Seq(Files')
    <3>1. assetsDist \in Seq(Files) BY DEF BuildInv, BuildTypeOK
    <3> QED BY <1>0, <3>1, FilesGrow DEF Files
  <2> QED BY <2>1, <2>2, <2>3
<1>2. BuildTypeOK' BY <1>0, <1>1 DEF BuildInv, BuildTypeOK
<1>3. DistInStep' BY <1>0 DEF BuildInv, DistInStep
<1>4. AssetsMatch' BY <1>0 DEF BuildInv, AssetsMatch
<1> QED BY <1>0, <1>2, <1>3, <1>4 DEF BuildInv

\* Starting the script forgets what the last run found.
LEMMA StartKeepsInv == BuildInv /\ Start => BuildInv'
<1> SUFFICES ASSUME BuildInv, Start PROVE BuildInv' OBVIOUS
<1>0. /\ step' = "prepare" /\ todo' = {"mkdir", "rm"}
      /\ found' = [n \in Names |-> 0] /\ built' = FALSE
      /\ UNCHANGED <<source, entryDir, dist, assetsDist>> /\ Files' = Files
  BY DEF Start, Files
<1>1. found' \in [Names -> 0 .. source'] BY <1>0 DEF BuildInv, BuildTypeOK
<1>2. BuildTypeOK' BY <1>0, <1>1 DEF BuildInv, BuildTypeOK
<1>3. DistInStep' BY <1>0 DEF DistInStep
<1>4. AssetsMatch' BY <1>0 DEF AssetsMatch
<1> QED BY <1>0, <1>2, <1>3, <1>4 DEF BuildInv

\* The two calls that prepare: when both have returned dist is empty.
LEMMA PrepareKeepsInv == BuildInv /\ (MkDir \/ RmDist) => BuildInv'
<1> SUFFICES ASSUME BuildInv, MkDir \/ RmDist PROVE BuildInv' OBVIOUS
<1>0. /\ step = "prepare" /\ UNCHANGED <<source, found, assetsDist, built>> /\ Files' = Files
      /\ entryDir' \in [exists : BOOLEAN, files : SUBSET Names] /\ ~built
      /\ todo \subseteq {"mkdir", "rm"}
  BY DEF BuildInv, BuildTypeOK, MkDir, RmDist, Files
<1>1. \/ step' = "disclaimer" /\ todo' = {}
      \/ step' = "prepare" /\ todo' \subseteq todo
  BY <1>0 DEF MkDir, RmDist, Return
<1>2. /\ dist' = dist \/ dist' = {}
      /\ step' = "disclaimer" => dist' = {}
      /\ "rm" \notin todo' => dist' = {}
  <2>1. CASE MkDir
    <3>1. dist' = dist /\ (todo' = todo \ {"mkdir"} \/ todo \ {"mkdir"} = {})
      BY <2>1 DEF MkDir, Return
    <3>2. "rm" \notin todo' => "rm" \notin todo
      BY <2>1, <1>1 DEF MkDir, Return
    <3>3. step' = "disclaimer" => "rm" \notin todo
      BY <1>0, <2>1 DEF MkDir, Return
    <3> QED BY <1>0, <3>1, <3>2, <3>3 DEF BuildInv, DistInStep
  <2>2. CASE RmDist BY <2>2 DEF RmDist
  <2> QED BY <2>1, <2>2
<1>3. BuildTypeOK' BY <1>0, <1>1, <1>2 DEF BuildInv, BuildTypeOK
<1>4. DistInStep' BY <1>1, <1>2 DEF DistInStep
<1>5. AssetsMatch' BY <1>0 DEF AssetsMatch
<1> QED BY <1>0, <1>3, <1>4, <1>5 DEF BuildInv

\* The disclaimer and the entries do not touch dist.
LEMMA EntriesKeepInv ==
  ASSUME BuildInv, WriteDisclaimer \/ \E name \in Names : WriteEntry(name) PROVE BuildInv'
<1>0. /\ UNCHANGED <<source, dist, found, assetsDist, built>> /\ Files' = Files
      /\ step \in {"disclaimer", "entries"} /\ dist = {} /\ ~built
  BY DEF BuildInv, DistInStep, WriteDisclaimer, WriteEntry, Files
<1>1. \/ step' = "entries" /\ todo' \subseteq Names
      \/ step' = "bundle" /\ todo' = {}
  <2>1. CASE WriteDisclaimer BY <2>1 DEF WriteDisclaimer
  <2>2. ASSUME NEW name \in Names, WriteEntry(name)
        PROVE  \/ step' = "entries" /\ todo' \subseteq Names
               \/ step' = "bundle" /\ todo' = {}
    <3>1. step = "entries" /\ todo \subseteq Names /\ Return(name, "bundle", {})
      BY <2>2 DEF BuildInv, BuildTypeOK, WriteEntry
    <3> QED BY <3>1 DEF Return
  <2> QED BY <2>1, <2>2
<1>2. entryDir' \in [exists : BOOLEAN, files : SUBSET Names]
  <2>1. entryDir \in [exists : BOOLEAN, files : SUBSET Names] BY DEF BuildInv, BuildTypeOK
  <2>2. CASE WriteDisclaimer BY <2>1, <2>2 DEF WriteDisclaimer
  <2>3. ASSUME NEW name \in Names, WriteEntry(name)
        PROVE  entryDir' \in [exists : BOOLEAN, files : SUBSET Names]
    <3>1. /\ entryDir' = [exists |-> TRUE, files |-> entryDir.files \union {name}]
          /\ entryDir.files \in SUBSET Names
      BY <2>1, <2>3 DEF WriteEntry
    <3> QED BY <3>1
  <2> QED BY <2>1, <2>2, <2>3
<1>3. BuildTypeOK' BY <1>0, <1>1, <1>2 DEF BuildInv, BuildTypeOK
<1>4. DistInStep' BY <1>0, <1>1 DEF DistInStep
<1>5. AssetsMatch' BY <1>0 DEF AssetsMatch
<1> QED BY <1>0, <1>3, <1>4, <1>5 DEF BuildInv

\* What the bundler writes are files of the current version.
LEMMA OutputIsTyped ==
  ASSUME BuildTypeOK
  PROVE  /\ Output(source) \subseteq Files /\ source \in 1 .. source
         /\ Output(source) = Bundles(source) \union Pages(Names, source)
<1>1. source \in 1 .. source BY EntryAssumption DEF BuildTypeOK
<1> QED BY <1>1 DEF Output, Files, Bundle, Page, Bundles, Pages

\* The bundler fills the empty directory, or a part of it and fails.
LEMMA BundlerKeepsInv == BuildInv /\ (RunBundler \/ FailBundler) => BuildInv'
<1> SUFFICES ASSUME BuildInv, RunBundler \/ FailBundler PROVE BuildInv' OBVIOUS
<1>0. /\ step = "bundle" /\ dist = {} /\ todo = {} /\ ~built /\ Files' = Files
      /\ UNCHANGED <<source, entryDir, found, assetsDist, built>>
  BY DEF BuildInv, BuildTypeOK, DistInStep, RunBundler, FailBundler, Files
<1>1. dist' \subseteq Files
  BY <1>0, OutputIsTyped DEF BuildInv, RunBundler, FailBundler
<1>2. \/ step' = "find" /\ todo' = Names /\ dist' = Output(source)
      \/ step' = "idle" /\ todo' = {}
  BY <1>0 DEF RunBundler, FailBundler
<1>3. BuildTypeOK' BY <1>0, <1>1, <1>2 DEF BuildInv, BuildTypeOK
<1>4. DistInStep' BY <1>0, <1>2, OutputIsTyped DEF BuildInv, DistInStep
<1>5. AssetsMatch' BY <1>0 DEF AssetsMatch
<1> QED BY <1>0, <1>3, <1>4, <1>5 DEF BuildInv

\* The page of an entry names the bundle of the one version that is there.
LEMMA FindKeepsInv == ASSUME BuildInv, NEW name \in Names, FindAssets(name) PROVE BuildInv'
<1>0. /\ step = "find" /\ name \in todo /\ todo \subseteq Names /\ ~built /\ Files' = Files
      /\ UNCHANGED <<source, entryDir, assetsDist, built>>
  BY DEF BuildInv, BuildTypeOK, FindAssets, Return, Files
<1>1. PICK v \in 1 .. source :
        /\ dist = Bundles(v) \union Pages(todo, v)
        /\ \A n \in Names \ todo : found[n] = v
  BY <1>0 DEF BuildInv, DistInStep
<1>2. PICK w \in 1 .. source :
        /\ Page(name, w) \in dist /\ found' = [found EXCEPT ![name] = w]
        /\ dist' = dist \ {Page(name, w)}
  BY DEF FindAssets
<1>3. w = v BY <1>1, <1>2 DEF Bundles, Pages, Bundle, Page
<1>4. dist' = Bundles(v) \union Pages(todo \ {name}, v)
  BY <1>1, <1>2, <1>3 DEF Bundles, Pages, Bundle, Page
<1>5. /\ found' \in [Names -> 0 .. source]
      /\ \A n \in Names \ (todo \ {name}) : found'[n] = v
  BY <1>1, <1>2, <1>3 DEF BuildInv, BuildTypeOK
<1>6. \/ todo \ {name} = {} /\ step' = "truncate" /\ todo' = {}
      \/ step' = "find" /\ todo' = todo \ {name}
  BY <1>0 DEF FindAssets, Return
<1>7. dist' \subseteq Files BY <1>2 DEF BuildInv, BuildTypeOK
<1>8. BuildTypeOK' BY <1>0, <1>5, <1>6, <1>7 DEF BuildInv, BuildTypeOK
<1>9. DistInStep'
  <2>1. CASE step' = "truncate"
    <3>1. todo \ {name} = {} BY <1>6, <2>1
    <3>2. dist' = Bundles(v) /\ \A n \in Names : found'[n] = v
      BY <1>4, <1>5, <3>1 DEF Pages
    <3> QED BY <1>0, <2>1, <3>2 DEF DistInStep, Bundles, Bundle
  <2>2. CASE step' = "find"
    BY <1>0, <1>4, <1>5, <1>6, <2>2 DEF DistInStep
  <2> QED BY <1>6, <2>1, <2>2
<1>10. AssetsMatch' BY <1>0 DEF AssetsMatch
<1> QED BY <1>0, <1>8, <1>9, <1>10 DEF BuildInv

\* The generated source is emptied and written; then the run has ended well.
LEMMA WriteKeepsInv == BuildInv /\ (Truncate \/ WriteAssets) => BuildInv'
<1> SUFFICES ASSUME BuildInv, Truncate \/ WriteAssets PROVE BuildInv' OBVIOUS
<1>0. /\ step \in {"truncate", "write"} /\ ~built /\ todo = {} /\ Files' = Files
      /\ UNCHANGED <<source, todo, entryDir, dist, found>>
  BY DEF BuildInv, BuildTypeOK, Truncate, WriteAssets, Files
<1>1. PICK v \in 1 .. source : dist = Bundles(v) /\ \A n \in Names : found[n] = v
  BY <1>0 DEF BuildInv, DistInStep
<1>2. CASE Truncate
  <2>1. assetsDist' = << >> /\ step' = "write" /\ built' = built BY <1>2 DEF Truncate
  <2>2. BuildTypeOK' BY <1>0, <2>1 DEF BuildInv, BuildTypeOK
  <2>3. DistInStep' BY <1>0, <1>1, <2>1 DEF DistInStep
  <2>4. AssetsMatch' BY <1>0, <2>1 DEF AssetsMatch
  <2> QED BY <1>0, <2>1, <2>2, <2>3, <2>4 DEF BuildInv
<1>3. CASE WriteAssets
  <2>1. /\ assetsDist' = [i \in 1 .. Len(Entrypoints) |->
                            Bundle(Entrypoints[i], found[Entrypoints[i]])]
        /\ step' = "idle" /\ built' = TRUE
    BY <1>3 DEF WriteAssets
  <2>2. assetsDist' = [i \in 1 .. Len(Entrypoints) |-> Bundle(Entrypoints[i], v)]
    BY <1>1, <2>1, NamesOfEntries
  <2>3. Len(Entrypoints) \in Nat BY EntryAssumption
  <2>4. \A i \in 1 .. Len(Entrypoints) : Bundle(Entrypoints[i], v) \in Files
    BY NamesOfEntries DEF Bundle, Files
  <2>5. assetsDist' \in Seq(Files) BY <2>2, <2>3, <2>4
  <2>6. BuildTypeOK' BY <1>0, <2>1, <2>5 DEF BuildInv, BuildTypeOK
  <2>7. DistInStep' BY <2>1 DEF DistInStep
  <2>8. AssetsMatch' BY <1>0, <1>1, <2>2 DEF AssetsMatch, Bundles
  <2> QED BY <2>1, <2>6, <2>7, <2>8 DEF BuildInv
<1> QED BY <1>2, <1>3

\* A failure leaves what is there; the next run removes it.
LEMMA FailKeepsInv == BuildInv /\ Fail => BuildInv'
<1> SUFFICES ASSUME BuildInv, Fail PROVE BuildInv' OBVIOUS
<1>0. /\ step' = "idle" /\ todo' = {} /\ ~built /\ Files' = Files
      /\ UNCHANGED <<source, entryDir, found, assetsDist, built>>
      /\ dist' \subseteq dist
  BY DEF BuildInv, Fail, Files
<1>1. BuildTypeOK' BY <1>0 DEF BuildInv, BuildTypeOK
<1>2. DistInStep' /\ AssetsMatch' BY <1>0 DEF DistInStep, AssetsMatch
<1> QED BY <1>0, <1>1, <1>2 DEF BuildInv

\* A step keeps the invariant.
LEMMA BuildInvIsKept == BuildInv /\ [BuildNext]_buildVars => BuildInv'
<1> SUFFICES ASSUME BuildInv, [BuildNext]_buildVars PROVE BuildInv' OBVIOUS
<1>1. CASE UNCHANGED buildVars
  BY <1>1 DEF buildVars, BuildInv, BuildTypeOK, Files, DistInStep, AssetsMatch
<1> QED BY <1>1, EditKeepsInv, StartKeepsInv, PrepareKeepsInv, EntriesKeepInv,
           BundlerKeepsInv, FindKeepsInv, WriteKeepsInv, FailKeepsInv DEF BuildNext

\* What dist holds at each step of the script, in every reachable state.
THEOREM BuildInvariant == BuildSpec => []BuildInv
BY BuildInitially, BuildInvIsKept, PTL DEF BuildSpec

\* The variables have their types, and calls are outstanding only of the
\* Promise.all the script is at.
THEOREM BuildTypeCorrect == BuildSpec => []BuildTypeOK
<1>1. BuildInv => BuildTypeOK BY DEF BuildInv
<1> QED BY <1>1, BuildInvariant, PTL

\* After a run that ended well the generated source and dist fit each other,
\* whatever was edited, failed or killed before.
THEOREM GeneratedMatches == BuildSpec => []AssetsMatch
<1>1. BuildInv => AssetsMatch BY DEF BuildInv
<1> QED BY <1>1, BuildInvariant, PTL
====
