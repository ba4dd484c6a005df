----------------------------- MODULE MakeIndexProofs --------------------------
(***************************************************************************)
(* What MakeIndex promises for every input, every mask and every choice of *)
(* predicates: the finished index holds the edges and data the input       *)
(* states and no others, each labelled with its best triple, and no id     *)
(* means two things.                                                       *)
(***************************************************************************)
EXTENDS MakeIndex, LabelMapProofs, FiniteSetTheorems

-------------------------------------------------------------------------------
(* The masks *)

\* Before anything is identified a label has one id.
Plain(m) == \A l \in Label : m.forward[l].canonical = m.forward[l].literal

\* Every label of a mask is added, in whatever order the Go map yields them.
LEMMA AddAllGrows ==
  ASSUME NEW m, MapInv(m), Plain(m), NEW ls \in SUBSET Label, IsFiniteSet(ls),
         m.id + Cardinality(Fresh(m, ls)) =< MaxID, NEW order \in Orders(m, ls)
  PROVE  LET n == AddAll(m, ls, order)
         IN  /\ MapInv(n) /\ Plain(n) /\ Grows(m, n) /\ \A l \in ls : Has(n, l)
             /\ \A l \in Label : Has(n, l) <=> Has(m, l) \/ l \in ls
             /\ n.id = m.id + Cardinality(Fresh(m, ls))
<1> DEFINE fresh == Fresh(m, ls)
           n == AddAll(m, ls, order)
           new == (m.id + 1) .. (m.id + Cardinality(fresh))
<1>1. fresh \subseteq Label /\ \A l \in Label : l \in fresh <=> l \in ls /\ ~Has(m, l)
  BY DEF Fresh
<1>2. m \in MapValue /\ m.id \in Nat /\ MaxID \in Nat BY MapIDs
<1>3. IsFiniteSet(fresh) /\ Cardinality(fresh) \in Nat
  <2>1. IsFiniteSet(fresh) BY FS_Subset DEF Fresh
  <2> QED BY <2>1, FS_CardinalityType
<1>4. /\ order \in [fresh -> new]
      /\ \A k, l \in fresh : order[k] = order[l] => k = l
      /\ \A i \in new : \E l \in fresh : order[l] = i
  BY DEF Orders, Fn!Bijection, Fn!Injection, Fn!Surjection, Fn!IsInjective
<1>5. \A i \in new : i \in ID /\ i > m.id /\ i =< m.id + Cardinality(fresh)
  BY <1>2, <1>3 DEF ID
<1>6. \A l \in fresh : order[l] \in new /\ order[l] \in ID /\ order[l] > m.id /\ order[l] # NoID
  BY <1>2, <1>4, <1>5 DEF NoID, ID
<1>7. /\ n.id = m.id + Cardinality(fresh)
      /\ n.forward = [l \in Label |-> IF l \in fresh
                        THEN [canonical |-> order[l], literal |-> order[l]] ELSE m.forward[l]]
      /\ n.reverse = [i \in ID |-> IF \E l \in fresh : order[l] = i
                        THEN CHOOSE l \in fresh : order[l] = i ELSE m.reverse[i]]
      /\ n = [forward |-> n.forward, reverse |-> n.reverse, id |-> n.id]
  BY DEF AddAll
<1> HIDE DEF fresh, n, new
<1>8. ASSUME NEW l \in fresh
      PROVE  n.forward[l].canonical = order[l] /\ n.forward[l].literal = order[l]
  <2>1. n.forward[l] = [canonical |-> order[l], literal |-> order[l]] BY <1>1, <1>7
  <2> QED BY <2>1
<1>9. \A l \in Label : l \notin fresh => n.forward[l] = m.forward[l] BY <1>7
<1>10. ASSUME NEW l \in fresh PROVE n.reverse[order[l]] = l
  <2>1. n.reverse[order[l]] = CHOOSE k \in fresh : order[k] = order[l] BY <1>6, <1>7
  <2>2. \E k \in fresh : order[k] = order[l] OBVIOUS
  <2>3. n.reverse[order[l]] \in fresh /\ order[n.reverse[order[l]]] = order[l] BY <2>1, <2>2
  <2> QED BY <2>3, <1>4
<1>11. \A i \in ID : i \notin new => n.reverse[i] = m.reverse[i]
  BY <1>6, <1>7
<1>12. \A i \in ID : i =< m.id => n.reverse[i] = m.reverse[i]
  <2>1. \A i \in ID : i =< m.id => i \notin new BY <1>5, <1>2 DEF ID
  <2> QED BY <2>1, <1>11
<1>13. \A l \in fresh : Has(n, l) BY <1>6, <1>8 DEF Has
<1>14. \A l \in Label : l \notin fresh => (Has(n, l) <=> Has(m, l)) BY <1>9 DEF Has
<1>15. \A l \in Label : Has(n, l) <=> Has(m, l) \/ l \in ls BY <1>1, <1>13, <1>14
<1>16. \A l \in Label : Has(m, l) => l \notin fresh BY <1>1
<1>17. n \in MapValue
  <2>1. n.id \in {NoID} \union ID BY <1>2, <1>3, <1>7 DEF ID, NoID, fresh
  <2>2. n.forward \in [Label -> TripleID]
    BY <1>1, <1>2, <1>6, <1>7 DEF MapValue, TripleID
  <2>3. n.reverse \in [ID -> Label \union {NoLabel}]
    <3>1. \A i \in ID : n.reverse[i] \in Label \union {NoLabel}
      <4>1. \A i \in new : \E l \in fresh : n.reverse[i] = l BY <1>4, <1>10
      <4> QED BY <4>1, <1>1, <1>2, <1>11 DEF MapValue
    <3> QED BY <3>1, <1>7
  <2> QED BY <2>1, <2>2, <2>3, <1>7 DEF MapValue
<1>18. HalvesTogether(n)
  <2>1. ASSUME NEW l \in Label, l \in fresh PROVE n.forward[l].canonical \in ID /\ Has(n, l)
    BY <2>1, <1>6, <1>8, <1>13
  <2>2. ASSUME NEW l \in Label, l \notin fresh
        PROVE  IF Has(n, l) THEN n.forward[l].canonical \in ID ELSE n.forward[l] = NoTripleID
    BY <2>2, <1>9, <1>14 DEF MapInv, HalvesTogether
  <2> QED BY <2>1, <2>2 DEF HalvesTogether
<1>19. MutuallyInverse(n)
  <2>1. ASSUME NEW i \in ID, n.reverse[i] # NoLabel
        PROVE  i =< n.id /\ n.forward[n.reverse[i]].literal = i
    <3>1. CASE i \in new
      <4>1. PICK l \in fresh : order[l] = i BY <3>1, <1>4
      <4>2. n.reverse[i] = l /\ n.forward[l].literal = i BY <4>1, <1>8, <1>10
      <4>3. i =< n.id BY <3>1, <1>5, <1>7
      <4> QED BY <4>2, <4>3
    <3>2. CASE i \notin new
      <4>1. m.reverse[i] # NoLabel /\ m.reverse[i] \in Label /\ n.reverse[i] = m.reverse[i]
        BY <3>2, <2>1, <1>11, <1>2 DEF MapValue
      <4>2. i =< m.id /\ m.forward[m.reverse[i]].literal = i
        BY <4>1 DEF MapInv, MutuallyInverse
      <4>3. Has(m, m.reverse[i]) BY <4>1, <4>2 DEF Has, ID, NoID
      <4>4. n.forward[m.reverse[i]] = m.forward[m.reverse[i]] BY <4>1, <4>3, <1>9, <1>16
      <4> QED BY <4>1, <4>2, <4>4, <1>2, <1>3, <1>7 DEF ID
    <3> QED BY <3>1, <3>2
  <2>2. ASSUME NEW l \in Label, Has(n, l) PROVE n.reverse[n.forward[l].literal] = l
    <3>1. CASE l \in fresh
      <4>1. n.reverse[order[l]] = l /\ n.forward[l].literal = order[l] BY <3>1, <1>8, <1>10
      <4> QED BY <4>1
    <3>2. CASE l \notin fresh
      <4>1. Has(m, l) /\ n.forward[l] = m.forward[l] BY <3>2, <2>2, <1>9, <1>14
      <4> QED BY <4>1, <1>12, KnownIDs
    <3> QED BY <3>1, <3>2
  <2> QED BY <2>1, <2>2 DEF MutuallyInverse
<1>20. Plain(n)
  <2>1. ASSUME NEW l \in Label, l \in fresh PROVE n.forward[l].canonical = n.forward[l].literal
    BY <2>1, <1>8
  <2>2. ASSUME NEW l \in Label, l \notin fresh PROVE n.forward[l].canonical = n.forward[l].literal
    BY <2>2, <1>9 DEF Plain
  <2> QED BY <2>1, <2>2 DEF Plain
<1>21. Fixpoints(n)
  <2> SUFFICES ASSUME NEW l \in Label, Has(n, l)
               PROVE  LET r == n.reverse[n.forward[l].canonical]
                      IN  r \in Label /\ n.forward[r].canonical = n.forward[l].canonical
    BY DEF Fixpoints
  <2>1. n.forward[l].canonical = n.forward[l].literal BY <1>20 DEF Plain
  <2>2. n.reverse[n.forward[l].canonical] = l BY <2>1, <1>19 DEF MutuallyInverse
  <2> QED BY <2>2
<1>22. Grows(m, n)
  <2>1. m.id =< n.id BY <1>2, <1>3, <1>7
  <2> QED BY <2>1, <1>9, <1>12, <1>16 DEF Grows
<1>23. MapInv(n) BY <1>17, <1>18, <1>19, <1>21 DEF MapInv
<1> QED BY <1>7, <1>15, <1>20, <1>22, <1>23 DEF n, fresh

\* The mask mk holds the ids of the labels ls, or there is none.
MaskExact(mk, ls) ==
    IF ls = NoMask THEN mk = NoMask
    ELSE /\ mk # NoMask
         /\ mk = {labels.forward[l].literal : l \in ls}
         /\ \A l \in ls : Has(labels, l)

\* addMask lets through what the pathbuilders name, and nothing else.
LEMMA MaskAdmits ==
  ASSUME MapInv(labels), NEW mk, NEW ls, ls # NoMask => ls \subseteq Label, MaskExact(mk, ls),
         NEW p \in Label
  PROVE  Admits(mk, p) <=> (ls # NoMask => p \in ls)
<1>1. CASE ls = NoMask BY <1>1 DEF MaskExact, Admits
<1>2. CASE ls # NoMask
  <2>1. \A l \in ls : l \in Label /\ Has(labels, l) /\ labels.reverse[labels.forward[l].literal] = l
    BY <1>2, KnownIDs DEF MaskExact
  <2>2. Has(labels, p) => labels.reverse[labels.forward[p].literal] = p BY KnownIDs
  <2> QED BY <1>2, <2>1, <2>2 DEF MaskExact, Admits
<1> QED BY <1>1, <1>2

-------------------------------------------------------------------------------
(* How a triple is filed *)

\* Of the triples with edge k, b has the smallest role, and is the oldest such.
Best(ts, k, b) ==
    /\ b \in DOMAIN ts /\ Edge(ts[b]) = k
    /\ \A i \in DOMAIN ts : Edge(ts[i]) = k =>
          ts[b].role < ts[i].role \/ (ts[b].role = ts[i].role /\ b =< i)

\* The two indexes x.pso and x.pos file the triples ts, and x.stats counts the
\* edges, and twice the triples that have an edge another one had before.
Filed(x, ts) ==
    /\ IsFiniteSet(DOMAIN x.pso) /\ IsFiniteSet(DOMAIN ts)
    /\ DOMAIN x.pso \subseteq ID \X ID \X ID /\ DOMAIN x.pos \subseteq ID \X ID \X ID
    /\ \A k \in DOMAIN x.pso : /\ <<k[1], k[3], k[2]>> \in DOMAIN x.pos
                               /\ x.pos[<<k[1], k[3], k[2]>>] = x.pso[k]
                               /\ Best(ts, k, x.pso[k])
    /\ \A k \in DOMAIN x.pos : <<k[1], k[3], k[2]>> \in DOMAIN x.pso
    /\ \A i \in DOMAIN ts : Edge(ts[i]) \in DOMAIN x.pso
    /\ x.stats \in [StatNames -> Nat]
    /\ x.stats["direct"] + x.stats["inverse"] + x.stats["datum"] = Cardinality(DOMAIN x.pso)
    /\ x.stats["conflict"] + 2 * Cardinality(DOMAIN x.pso) = 2 * Cardinality(DOMAIN ts)

\* The winner of a conflict is the best of the old triples and the new one.
LEMMA WinnerIsBest ==
  ASSUME NEW ts, NEW id \in Nat, NEW t, t.role \in Nat,
         \A i \in DOMAIN ts : i \in Nat /\ i < id /\ ts[i].role \in Nat,
         NEW k, NEW b, Best(ts, k, b), Edge(t) = k
  PROVE  Best(Put(ts, id, t), k, Winner(Put(ts, id, t), b, id))
<1> DEFINE n == Put(ts, id, t)
<1>0. id \notin DOMAIN ts OBVIOUS
<1>1. DOMAIN n = DOMAIN ts \union {id} /\ n[id] = t /\ \A i \in DOMAIN ts : n[i] = ts[i]
  BY <1>0 DEF Put
<1>2. b \in DOMAIN ts /\ b \in Nat /\ b < id /\ ts[b].role \in Nat BY DEF Best
<1> HIDE DEF n
<1>3. CASE t.role < ts[b].role
  <2>1. Winner(n, b, id) = id BY <1>1, <1>2, <1>3 DEF Winner
  <2>2. ASSUME NEW i \in DOMAIN ts, Edge(ts[i]) = k PROVE t.role < ts[i].role
    BY <2>2, <1>2, <1>3 DEF Best
  <2> QED BY <1>1, <2>1, <2>2 DEF Best, n
<1>4. CASE ~(t.role < ts[b].role)
  <2>1. Winner(n, b, id) = b BY <1>1, <1>2, <1>4 DEF Winner
  <2>2. ts[b].role < t.role \/ (ts[b].role = t.role /\ b =< id) BY <1>2, <1>4
  <2>3. ASSUME NEW i \in DOMAIN n, Edge(n[i]) = k
        PROVE  n[b].role < n[i].role \/ (n[b].role = n[i].role /\ b =< i)
    BY <1>1, <1>2, <2>2, <2>3 DEF Best
  <2>4. b \in DOMAIN n /\ Edge(n[b]) = k BY <1>1, <1>2 DEF Best
  <2> QED BY <2>1, <2>3, <2>4 DEF Best, n
<1> QED BY <1>3, <1>4

\* A triple with another edge does not compete.
LEMMA OthersStayBest ==
  ASSUME NEW ts, NEW id, id \notin DOMAIN ts, NEW t, NEW k, NEW b, Best(ts, k, b), Edge(t) # k
  PROVE  Best(Put(ts, id, t), k, b)
<1>1. DOMAIN Put(ts, id, t) = DOMAIN ts \union {id} /\ Put(ts, id, t)[id] = t
      /\ \A i \in DOMAIN ts : Put(ts, id, t)[i] = ts[i]
  BY DEF Put
<1> QED BY <1>1 DEF Best

\* The first triple of an edge is its best.
LEMMA FirstIsBest ==
  ASSUME NEW ts, NEW id \in Nat, id \notin DOMAIN ts, NEW t, t.role \in Nat, NEW k, Edge(t) = k,
         \A i \in DOMAIN ts : Edge(ts[i]) # k
  PROVE  Best(Put(ts, id, t), k, id)
<1>1. DOMAIN Put(ts, id, t) = DOMAIN ts \union {id} /\ Put(ts, id, t)[id] = t
      /\ \A i \in DOMAIN ts : Put(ts, id, t)[i] = ts[i]
  BY DEF Put
<1> QED BY <1>1 DEF Best

\* insert files one more triple in both indexes, under its edge.
LEMMA InsertFiles ==
  ASSUME NEW x, NEW ts, Filed(x, ts), NEW id \in Nat, NEW t, t.role \in Nat,
         \A i \in DOMAIN ts : i \in Nat /\ i < id /\ ts[i].role \in Nat,
         NEW s \in ID, NEW p \in ID, NEW o \in ID, Edge(t) = <<p, s, o>>,
         NEW kind \in {"direct", "inverse", "datum"}
  PROVE  LET n == Put(ts, id, t)
             y == Insert(x, n, s, p, o, id, kind)
         IN  Filed(y, n) /\ DOMAIN y.pso = DOMAIN x.pso \union {<<p, s, o>>}
<1> DEFINE n == Put(ts, id, t)
           k == <<p, s, o>>
           r == <<p, o, s>>
           y == Insert(x, n, s, p, o, id, kind)
<1>0. id \notin DOMAIN ts OBVIOUS
<1>1. DOMAIN n = DOMAIN ts \union {id} /\ n[id] = t /\ \A i \in DOMAIN ts : n[i] = ts[i]
  BY <1>0 DEF Put
<1>2. k \in DOMAIN x.pso <=> r \in DOMAIN x.pos
  <2>1. k[1] = p /\ k[2] = s /\ k[3] = o /\ r[1] = p /\ r[2] = o /\ r[3] = s OBVIOUS
  <2> QED BY <2>1 DEF Filed
<1>3. /\ y.pso = StorageAdd(x.pso, n, k, id) /\ y.pos = StorageAdd(x.pos, n, r, id)
  BY DEF Insert
<1> HIDE DEF n, y, k, r
<1>4. /\ DOMAIN y.pso = DOMAIN x.pso \union {k} /\ DOMAIN y.pos = DOMAIN x.pos \union {r}
      /\ \A j \in DOMAIN x.pso : j # k => y.pso[j] = x.pso[j]
      /\ \A j \in DOMAIN x.pos : j # r => y.pos[j] = x.pos[j]
      /\ y.pso[k] = IF k \in DOMAIN x.pso THEN Winner(n, x.pso[k], id) ELSE id
      /\ y.pos[r] = IF r \in DOMAIN x.pos THEN Winner(n, x.pos[r], id) ELSE id
  <2>1. /\ DOMAIN y.pso = DOMAIN x.pso \union {k} /\ \A j \in DOMAIN x.pso : j # k => y.pso[j] = x.pso[j]
        /\ y.pso[k] = IF k \in DOMAIN x.pso THEN Winner(n, x.pso[k], id) ELSE id
    BY <1>3 DEF StorageAdd, Put
  <2>2. /\ DOMAIN y.pos = DOMAIN x.pos \union {r} /\ \A j \in DOMAIN x.pos : j # r => y.pos[j] = x.pos[j]
        /\ y.pos[r] = IF r \in DOMAIN x.pos THEN Winner(n, x.pos[r], id) ELSE id
    BY <1>3 DEF StorageAdd, Put
  <2> QED BY <2>1, <2>2
<1> USE DEF k, r
<1>5. y.pso[k] = y.pos[r]
  <2>1. k \in DOMAIN x.pso => x.pos[<<k[1], k[3], k[2]>>] = x.pso[k] BY DEF Filed
  <2> QED BY <2>1, <1>2, <1>4
<1>6. Best(n, k, y.pso[k])
  <2>1. CASE k \in DOMAIN x.pso
    <3>1. Best(ts, k, x.pso[k]) BY <2>1 DEF Filed
    <3> QED BY <3>1, <2>1, <1>4, WinnerIsBest DEF n
  <2>2. CASE k \notin DOMAIN x.pso
    <3>1. \A i \in DOMAIN ts : Edge(ts[i]) # k BY <2>2 DEF Filed
    <3> QED BY <3>1, <2>2, <1>0, <1>4, FirstIsBest DEF n
  <2> QED BY <2>1, <2>2
<1>7. ASSUME NEW j \in DOMAIN y.pso
      PROVE  /\ <<j[1], j[3], j[2]>> \in DOMAIN y.pos
             /\ y.pos[<<j[1], j[3], j[2]>>] = y.pso[j]
             /\ Best(n, j, y.pso[j])
  <2>1. CASE j = k BY <2>1, <1>4, <1>5, <1>6
  <2>2. CASE j # k
    <3>1. j \in DOMAIN x.pso /\ y.pso[j] = x.pso[j] BY <2>2, <1>4
    <3>2. j \in ID \X ID \X ID BY <3>1 DEF Filed
    <3>3. <<j[1], j[3], j[2]>> # r BY <3>2, <2>2
    <3>4. /\ <<j[1], j[3], j[2]>> \in DOMAIN x.pos
          /\ x.pos[<<j[1], j[3], j[2]>>] = x.pso[j] /\ Best(ts, j, x.pso[j])
      BY <3>1 DEF Filed
    <3>5. Best(n, j, x.pso[j]) BY <3>4, <1>0, <2>2, OthersStayBest DEF n
    <3> QED BY <3>1, <3>3, <3>4, <3>5, <1>4
  <2> QED BY <2>1, <2>2
<1>8. ASSUME NEW j \in DOMAIN y.pos PROVE <<j[1], j[3], j[2]>> \in DOMAIN y.pso
  BY <1>4 DEF Filed
<1>9. \A i \in DOMAIN n : Edge(n[i]) \in DOMAIN y.pso BY <1>1, <1>4 DEF Filed
<1>10. IsFiniteSet(DOMAIN y.pso) /\ Cardinality(DOMAIN x.pso) \in Nat
       /\ Cardinality(DOMAIN y.pso) = IF k \in DOMAIN x.pso THEN Cardinality(DOMAIN x.pso)
                                      ELSE Cardinality(DOMAIN x.pso) + 1
  <2>1. IsFiniteSet(DOMAIN x.pso) BY DEF Filed
  <2>2. /\ IsFiniteSet(DOMAIN x.pso \union {k}) /\ Cardinality(DOMAIN x.pso) \in Nat
        /\ Cardinality(DOMAIN x.pso \union {k}) = IF k \in DOMAIN x.pso THEN Cardinality(DOMAIN x.pso)
                                      ELSE Cardinality(DOMAIN x.pso) + 1
    BY <2>1, FS_AddElement, FS_CardinalityType
  <2> QED BY <2>2, <1>4
<1>11. /\ IsFiniteSet(DOMAIN n) /\ Cardinality(DOMAIN ts) \in Nat
       /\ Cardinality(DOMAIN n) = Cardinality(DOMAIN ts) + 1
  <2>1. IsFiniteSet(DOMAIN ts) BY DEF Filed
  <2> QED BY <2>1, <1>0, <1>1, FS_AddElement, FS_CardinalityType
<1>12. k \in DOMAIN x.pso => x.pso[k] # id /\ x.pos[r] # id
  <2> HAVE k \in DOMAIN x.pso
  <2>1. x.pso[k] \in DOMAIN ts /\ x.pos[<<k[1], k[3], k[2]>>] = x.pso[k] BY DEF Filed, Best
  <2>2. x.pos[r] = x.pso[k] BY <2>1
  <2> QED BY <1>0, <2>1, <2>2
<1>13. /\ y.stats \in [StatNames -> Nat]
       /\ y.stats["direct"] + y.stats["inverse"] + y.stats["datum"] = Cardinality(DOMAIN y.pso)
       /\ y.stats["conflict"] + 2 * Cardinality(DOMAIN y.pso) = 2 * Cardinality(DOMAIN n)
  <2> DEFINE st == x.stats
             c == IF k \in DOMAIN x.pso THEN st["conflict"] + 2 ELSE st["conflict"]
  <2>1. st \in [StatNames -> Nat]
        /\ st["direct"] + st["inverse"] + st["datum"] = Cardinality(DOMAIN x.pso)
        /\ st["conflict"] + 2 * Cardinality(DOMAIN x.pso) = 2 * Cardinality(DOMAIN ts)
    BY DEF Filed
  <2>2. st["conflict"] \in Nat BY <2>1 DEF StatNames
  <2>3. c \in Nat BY <2>2
  <2>4. y.stats = IF k \in DOMAIN x.pso THEN [st EXCEPT !["conflict"] = c]
                  ELSE Increase([st EXCEPT !["conflict"] = c], kind)
    <3> DEFINE clash(index, j) == IF j \in DOMAIN index /\ index[j] # id THEN 1 ELSE 0
               d == st["conflict"] + clash(x.pso, k) + clash(x.pos, r)
    <3>1. d = c BY <1>2, <1>12, <2>2
    <3>2. y.stats = IF k \in DOMAIN x.pso \/ r \in DOMAIN x.pos
                    THEN [st EXCEPT !["conflict"] = d]
                    ELSE Increase([st EXCEPT !["conflict"] = d], kind)
      BY DEF y, Insert
    <3> HIDE DEF c, d
    <3> QED BY <1>2, <3>1, <3>2
  <2> DEFINE counted == [st EXCEPT !["conflict"] = c]
  <2>5. /\ counted \in [StatNames -> Nat] /\ counted["conflict"] = c
        /\ \A name \in {"direct", "inverse", "datum"} : counted[name] = st[name] /\ st[name] \in Nat
    BY <2>1, <2>3 DEF StatNames
  <2>6. c = IF k \in DOMAIN x.pso THEN st["conflict"] + 2 ELSE st["conflict"] OBVIOUS
  <2>7. y.stats = IF k \in DOMAIN x.pso THEN counted ELSE Increase(counted, kind) BY <2>4
  <2> HIDE DEF st, c, counted
  <2>8. CASE k \in DOMAIN x.pso
    BY <1>10, <1>11, <2>1, <2>2, <2>5, <2>6, <2>7, <2>8
  <2>9. CASE k \notin DOMAIN x.pso
    <3>1. /\ y.stats \in [StatNames -> Nat] /\ y.stats["conflict"] = c
          /\ y.stats["direct"] + y.stats["inverse"] + y.stats["datum"] =
                counted["direct"] + counted["inverse"] + counted["datum"] + 1
      BY <2>5, <2>7, <2>9 DEF Increase, StatNames
    <3>2. counted["direct"] + counted["inverse"] + counted["datum"] = st["direct"] + st["inverse"] + st["datum"]
      BY <2>5
    <3>3. y.stats["conflict"] + 2 * Cardinality(DOMAIN y.pso) = 2 * Cardinality(DOMAIN n)
      BY <1>10, <1>11, <2>1, <2>2, <2>6, <2>9, <3>1
    <3> QED BY <1>10, <2>1, <2>9, <3>1, <3>2, <3>3
  <2> QED BY <2>8, <2>9
<1>14. DOMAIN y.pso \subseteq ID \X ID \X ID /\ DOMAIN y.pos \subseteq ID \X ID \X ID
  BY <1>4 DEF Filed
<1> QED BY <1>4, <1>7, <1>8, <1>9, <1>10, <1>11, <1>13, <1>14 DEF Filed, n, y

-------------------------------------------------------------------------------
(* What a stored triple says *)

\* The canonical id a literal id stands for; the id of a datum is its own.
NowID(m, i) == IF m.reverse[i] = NoLabel THEN i ELSE Forward(m, m.reverse[i])

\* Ids of data are handed out, and belong to no label.
DataOK(m, ds) == \A i \in ds : i \in ID /\ i =< m.id /\ m.reverse[i] = NoLabel

\* The triple t has ids everywhere; its source, labels and datum can be found;
\* its canonical ids are the ones its labels have now.
Good(m, ds, srcs, t) ==
    /\ t \in IndexTriple
    /\ \A n \in 1..3 : t.items[n].canonical \in ID /\ t.items[n].literal \in ID
    /\ \E g \in DOMAIN srcs : srcs[g] = t.source
    /\ \A n \in 1..2 : m.reverse[t.items[n].literal] # NoLabel
    /\ IF t.role = Data THEN t.items[3].literal \in ds
       ELSE m.reverse[t.items[3].literal] # NoLabel
    /\ IF t.role = InverseRole
       THEN /\ t.items[1].canonical = NowID(m, t.items[3].literal)
            /\ t.items[3].canonical = NowID(m, t.items[1].literal)
       ELSE \A n \in 1..3 : t.items[n].canonical = NowID(m, t.items[n].literal)

\* An id that was handed out goes on to stand for what it stood for.
LEMMA NowStays ==
  ASSUME NEW m, NEW n, MapInv(m), MapInv(n), Grows(m, n), NEW i \in ID, i =< m.id
  PROVE  n.reverse[i] = m.reverse[i] /\ NowID(n, i) = NowID(m, i)
<1>1. n.reverse[i] = m.reverse[i] BY DEF Grows
<1>2. CASE m.reverse[i] = NoLabel BY <1>1, <1>2 DEF NowID
<1>3. CASE m.reverse[i] # NoLabel
  <2>1. m.reverse[i] \in Label /\ m.forward[m.reverse[i]].literal = i
    BY <1>3 DEF MapInv, MapValue, MutuallyInverse
  <2>2. Has(m, m.reverse[i]) BY <2>1 DEF Has, ID, NoID
  <2>3. n.forward[m.reverse[i]] = m.forward[m.reverse[i]] BY <2>1, <2>2 DEF Grows
  <2> QED BY <1>1, <1>3, <2>3 DEF NowID, Forward
<1> QED BY <1>2, <1>3

\* A triple stays good while labels, data and sources are added.
LEMMA GoodStays ==
  ASSUME NEW m, NEW n, MapInv(m), MapInv(n), Grows(m, n),
         NEW ds, NEW es, ds \subseteq es, DataOK(m, ds),
         NEW f, NEW h, \A g \in DOMAIN f : g \in DOMAIN h /\ h[g] = f[g],
         NEW t, Good(m, ds, f, t)
  PROVE  Good(n, es, h, t)
<1>1. ASSUME NEW j \in 1..3 PROVE t.items[j].literal \in ID /\ t.items[j].literal =< m.id
  <2>1. t.items[j].literal \in ID BY DEF Good
  <2>2. t.items[j].literal \in ds \/ m.reverse[t.items[j].literal] # NoLabel BY DEF Good
  <2> QED BY <2>1, <2>2 DEF DataOK, MapInv, MutuallyInverse
<1>2. \A j \in 1..3 : /\ n.reverse[t.items[j].literal] = m.reverse[t.items[j].literal]
                      /\ NowID(n, t.items[j].literal) = NowID(m, t.items[j].literal)
  BY <1>1, NowStays
<1>3. \E g \in DOMAIN h : h[g] = t.source BY DEF Good
<1>4. 1 \in 1..3 /\ 2 \in 1..3 /\ 3 \in 1..3 /\ 1..2 \subseteq 1..3 OBVIOUS
<1>5. /\ \A j \in 1..2 : n.reverse[t.items[j].literal] # NoLabel
      /\ IF t.role = Data THEN t.items[3].literal \in es
         ELSE n.reverse[t.items[3].literal] # NoLabel
  BY <1>2, <1>4 DEF Good
<1>6. IF t.role = InverseRole
      THEN /\ t.items[1].canonical = NowID(n, t.items[3].literal)
           /\ t.items[3].canonical = NowID(n, t.items[1].literal)
      ELSE \A j \in 1..3 : t.items[j].canonical = NowID(n, t.items[j].literal)
  BY <1>2, <1>4 DEF Good
<1> QED BY <1>3, <1>5, <1>6 DEF Good

\* The literal id of a known label stands for it.
LEMMA KnownNow ==
  ASSUME NEW m, MapInv(m), NEW l \in Label, Has(m, l)
  PROVE  /\ m.forward[l].literal \in ID /\ m.forward[l].canonical \in ID
         /\ m.reverse[m.forward[l].literal] # NoLabel
         /\ NowID(m, m.forward[l].literal) = m.forward[l].canonical
<1>1. m.reverse[m.forward[l].literal] = l /\ l # NoLabel BY KnownIDs, LabelAssumption
<1> QED BY <1>1, KnownIDs DEF NowID, Forward

\* The triple AddTriple stores for the statement itself is good.
LEMMA DirectIsGood ==
  ASSUME NEW m, MapInv(m), NEW ds, NEW f, NEW g \in DOMAIN f, f[g] \in TID,
         NEW s \in Label, NEW p \in Label, NEW o \in Label, Has(m, s), Has(m, p), Has(m, o),
         NEW t, t = [role |-> Regular, source |-> f[g],
                     items |-> <<m.forward[s], m.forward[p], m.forward[o]>>]
  PROVE  /\ Good(m, ds, f, t)
         /\ Edge(t) = <<m.forward[p].canonical, m.forward[s].canonical, m.forward[o].canonical>>
<1>1. m.forward[s] \in TripleID /\ m.forward[p] \in TripleID /\ m.forward[o] \in TripleID
  BY KnownIDs
<1>2. t.role = Regular /\ t.source = f[g] /\ t.items[1] = m.forward[s]
      /\ t.items[2] = m.forward[p] /\ t.items[3] = m.forward[o]
  OBVIOUS
<1>3. t \in IndexTriple BY <1>1 DEF IndexTriple
<1>4. Regular # Data /\ Regular # InverseRole BY DEF Regular, Data, InverseRole
<1>5. \A n \in 1..3 : /\ t.items[n].canonical \in ID /\ t.items[n].literal \in ID
                      /\ m.reverse[t.items[n].literal] # NoLabel
                      /\ t.items[n].canonical = NowID(m, t.items[n].literal)
  BY <1>2, KnownNow
<1>6. Edge(t) = <<m.forward[p].canonical, m.forward[s].canonical, m.forward[o].canonical>>
  BY <1>2 DEF Edge
<1> QED BY <1>2, <1>3, <1>4, <1>5, <1>6 DEF Good

\* So is the one it infers from an inverse.
LEMMA InverseIsGood ==
  ASSUME NEW m, MapInv(m), NEW ds, NEW f, NEW g \in DOMAIN f, f[g] \in TID, NEW i \in ID,
         NEW s \in Label, NEW p \in Label, NEW o \in Label, Has(m, s), Has(m, p), Has(m, o),
         NEW t, t = [role |-> InverseRole, source |-> f[g],
                     items |-> InverseItems(m.forward[s], i, m.forward[p], m.forward[o])]
  PROVE  Good(m, ds, f, t) /\ Edge(t) = <<i, m.forward[o].canonical, m.forward[s].canonical>>
<1>1. m.forward[s] \in TripleID /\ m.forward[p] \in TripleID /\ m.forward[o] \in TripleID
  BY KnownIDs
<1>2. /\ t.role = InverseRole /\ t.source = f[g]
      /\ t.items[1] = [canonical |-> m.forward[o].canonical, literal |-> m.forward[s].literal]
      /\ t.items[2] = [canonical |-> i, literal |-> m.forward[p].literal]
      /\ t.items[3] = [canonical |-> m.forward[s].canonical, literal |-> m.forward[o].literal]
  BY DEF InverseItems
<1>3. t \in IndexTriple BY <1>1 DEF IndexTriple, InverseItems, TripleID
<1>4. InverseRole # Data BY DEF Data, InverseRole
<1>5. /\ t.items[1].canonical = m.forward[o].canonical /\ t.items[1].literal = m.forward[s].literal
      /\ t.items[2].canonical = i /\ t.items[2].literal = m.forward[p].literal
      /\ t.items[3].canonical = m.forward[s].canonical /\ t.items[3].literal = m.forward[o].literal
  BY <1>2
<1>6. \A n \in 1..3 : /\ t.items[n].canonical \in ID /\ t.items[n].literal \in ID
                      /\ m.reverse[t.items[n].literal] # NoLabel
  BY <1>5, KnownNow
<1>7. /\ t.items[1].canonical = NowID(m, t.items[3].literal)
      /\ t.items[3].canonical = NowID(m, t.items[1].literal)
  BY <1>5, KnownNow
<1>8. Edge(t) = <<i, m.forward[o].canonical, m.forward[s].canonical>>
  BY <1>5 DEF Edge
<1>9. \A n \in 1..2 : m.reverse[t.items[n].literal] # NoLabel BY <1>6
<1>10. m.reverse[t.items[3].literal] # NoLabel BY <1>6
<1>11. \E h \in DOMAIN f : f[h] = t.source BY <1>2
<1>12. t.role = InverseRole /\ t.role # Data BY <1>2, <1>4
<1>13. Good(m, ds, f, t) BY <1>3, <1>6, <1>7, <1>9, <1>10, <1>11, <1>12 DEF Good
<1> QED BY <1>8, <1>13

\* And the one AddData stores.
LEMMA DatumIsGood ==
  ASSUME NEW m, MapInv(m), NEW ds, NEW f, NEW g \in DOMAIN f, f[g] \in TID,
         NEW d \in ds, d \in ID, m.reverse[d] = NoLabel,
         NEW s \in Label, NEW p \in Label, Has(m, s), Has(m, p),
         NEW t, t = [role |-> Data, source |-> f[g],
                     items |-> <<m.forward[s], m.forward[p], [canonical |-> d, literal |-> d]>>]
  PROVE  Good(m, ds, f, t) /\ Edge(t) = <<m.forward[p].canonical, m.forward[s].canonical, d>>
<1>1. m.forward[s] \in TripleID /\ m.forward[p] \in TripleID BY KnownIDs
<1>2. t.role = Data /\ t.source = f[g] /\ t.items[1] = m.forward[s]
      /\ t.items[2] = m.forward[p] /\ t.items[3] = [canonical |-> d, literal |-> d]
  OBVIOUS
<1>3. t \in IndexTriple BY <1>1 DEF IndexTriple, TripleID
<1>4. Data # InverseRole BY DEF Data, InverseRole
<1>5. t.items[3].canonical = d /\ t.items[3].literal = d /\ NowID(m, d) = d BY <1>2 DEF NowID
<1>6. \A n \in 1..3 : /\ t.items[n].canonical \in ID /\ t.items[n].literal \in ID
                      /\ t.items[n].canonical = NowID(m, t.items[n].literal)
  BY <1>2, <1>5, KnownNow
<1>7. \A n \in 1..2 : m.reverse[t.items[n].literal] # NoLabel BY <1>2, KnownNow
<1>8. Edge(t) = <<m.forward[p].canonical, m.forward[s].canonical, d>>
  BY <1>2, <1>5 DEF Edge
<1> QED BY <1>2, <1>3, <1>4, <1>5, <1>6, <1>7, <1>8 DEF Good

-------------------------------------------------------------------------------
(* The counter of triples and sources *)

\* Triples and sources have ids of their own, none above the counter.
Numbered(ts, srcs, tr) ==
    /\ tr \in Nat /\ tr =< MaxTriple
    /\ \A i \in DOMAIN ts : i \in TID /\ i =< tr
    /\ DOMAIN srcs \subseteq Source
    /\ \A g \in DOMAIN srcs : srcs[g] \in TID /\ srcs[g] =< tr /\ srcs[g] \notin DOMAIN ts
    /\ \A g, h \in DOMAIN srcs : srcs[g] = srcs[h] => g = h

\* addSource: a source that is new gets the next id.
LEMMA SourceAdded ==
  ASSUME Numbered(triples, sources, triple), NEW g \in Source, AfterSource(g) + 1 =< MaxTriple
  PROVE  LET f == Put(sources, g, SourceID(g))
         IN  /\ Numbered(triples, f, AfterSource(g)) /\ g \in DOMAIN f /\ f[g] = SourceID(g)
             /\ \A h \in DOMAIN sources : h \in DOMAIN f /\ f[h] = sources[h]
             /\ AfterSource(g) \in Nat
             /\ \A i \in DOMAIN triples : i < AfterSource(g) + 1
<1> DEFINE f == Put(sources, g, SourceID(g))
           tr == AfterSource(g)
<1>1. triple \in Nat /\ MaxTriple \in Nat BY IndexAssumption DEF Numbered
<1>2. /\ DOMAIN f = DOMAIN sources \union {g} /\ f[g] = SourceID(g)
      /\ \A h \in DOMAIN sources : h # g => f[h] = sources[h]
  BY DEF Put
<1>3. CASE g \in DOMAIN sources
  <2>1. tr = triple /\ f[g] = sources[g] BY <1>2, <1>3 DEF AfterSource, SourceID
  <2>2. DOMAIN f = DOMAIN sources /\ \A h \in DOMAIN f : f[h] = sources[h]
    BY <1>2, <1>3, <2>1
  <2>3. Numbered(triples, f, tr) BY <2>1, <2>2 DEF Numbered
  <2>4. \A i \in DOMAIN triples : i < tr + 1 BY <2>1, <1>1 DEF Numbered, TID
  <2> QED BY <1>1, <1>2, <2>1, <2>2, <2>3, <2>4
<1>4. CASE g \notin DOMAIN sources
  <2>1. tr = triple + 1 /\ f[g] = triple + 1 BY <1>2, <1>4 DEF AfterSource, SourceID
  <2>2. \A h \in DOMAIN sources : h \in DOMAIN f /\ f[h] = sources[h] BY <1>2, <1>4
  <2> HIDE DEF f, tr
  <2>3. tr \in Nat /\ tr =< MaxTriple /\ tr \in TID BY <1>1, <2>1 DEF tr, TID
  <2>4. \A i \in DOMAIN triples : i \in TID /\ i =< triple /\ i \in Nat BY DEF Numbered, TID
  <2>5. \A h \in DOMAIN sources : sources[h] \in Nat /\ sources[h] =< triple BY DEF Numbered, TID
  <2>6. f[g] \notin DOMAIN triples /\ \A h \in DOMAIN sources : f[g] # sources[h]
    BY <1>1, <2>1, <2>4, <2>5
  <2>7. \A h \in DOMAIN f : f[h] \in TID /\ f[h] =< tr /\ f[h] \notin DOMAIN triples
    <3>1. ASSUME NEW h \in DOMAIN sources PROVE f[h] \in TID /\ f[h] =< tr /\ f[h] \notin DOMAIN triples
      BY <1>1, <2>1, <2>2, <2>5 DEF Numbered
    <3>2. f[g] \in TID /\ f[g] =< tr /\ f[g] \notin DOMAIN triples BY <2>1, <2>3, <2>6
    <3> QED BY <1>2, <3>1, <3>2
  <2>8. \A h, k \in DOMAIN f : f[h] = f[k] => h = k BY <1>2, <2>2, <2>6 DEF Numbered
  <2>9. \A i \in DOMAIN triples : i =< tr /\ i < tr + 1 BY <1>1, <2>1, <2>4
  <2>10. DOMAIN f \subseteq Source BY <1>2 DEF Numbered
  <2>11. Numbered(triples, f, tr) BY <2>3, <2>4, <2>7, <2>8, <2>9, <2>10 DEF Numbered
  <2> QED BY <1>2, <2>2, <2>3, <2>9, <2>11 DEF f, tr
<1> QED BY <1>3, <1>4

\* A triple that is stored takes the next id.
LEMMA TripleNumbered ==
  ASSUME NEW ts, NEW f, NEW tr, Numbered(ts, f, tr), tr + 1 =< MaxTriple, NEW t
  PROVE  Numbered(Put(ts, tr + 1, t), f, tr + 1)
<1>1. tr \in Nat /\ MaxTriple \in Nat /\ tr + 1 \in TID BY IndexAssumption DEF Numbered, TID
<1>2. DOMAIN Put(ts, tr + 1, t) = DOMAIN ts \union {tr + 1} BY DEF Put
<1>3. \A i \in DOMAIN ts : i \in TID /\ i \in Nat /\ i =< tr BY DEF Numbered, TID
<1>4. \A g \in DOMAIN f : f[g] \in TID /\ f[g] \in Nat /\ f[g] =< tr /\ f[g] \notin DOMAIN ts
  BY DEF Numbered, TID
<1>5. \A g \in DOMAIN f : f[g] \notin DOMAIN ts \union {tr + 1} /\ f[g] =< tr + 1 BY <1>1, <1>4
<1>6. \A i \in DOMAIN ts \union {tr + 1} : i \in TID /\ i =< tr + 1 BY <1>1, <1>3
<1> QED BY <1>1, <1>2, <1>4, <1>5, <1>6 DEF Numbered

-------------------------------------------------------------------------------
(* The inductive invariant *)

\* An index in the middle of a call: map, data, sources, triples, the two
\* indexes and the counter.
Sound(m, ds, srcs, ts, x, tr) ==
    /\ MapInv(m)
    /\ DataOK(m, ds)
    /\ Numbered(ts, srcs, tr)
    /\ \A i \in DOMAIN ts : Good(m, ds, srcs, ts[i])
    /\ Filed(x, ts)

StillEmpty == DOMAIN triples = {} /\ data = {}

\* What each pass may rely on.
Passes ==
    /\ phase \in {"mask", "sameAs", "inverse"} => StillEmpty
    /\ phase \in {"mask", "sameAs"} => DOMAIN inverses = {}
    /\ phase = "mask" => labels = EmptyMap /\ pMask = NoMask /\ dMask = NoMask

IndexInv == Sound(labels, data, sources, triples, Indexes, triple)

Inv == TypeOK /\ IndexInv /\ Passes

\* An index that is filed right is typed right.
LEMMA FiledTypes ==
  ASSUME NEW x, NEW ts, Filed(x, ts)
  PROVE  \A y \in {x.pso, x.pos} :
            DOMAIN y \subseteq ID \X ID \X ID /\ \A k \in DOMAIN y : y[k] \in DOMAIN ts
<1>1. \A k \in DOMAIN x.pso : x.pso[k] \in DOMAIN ts BY DEF Filed, Best
<1>2. ASSUME NEW k \in DOMAIN x.pos PROVE x.pos[k] \in DOMAIN ts
  <2>1. k \in ID \X ID \X ID /\ <<k[1], k[3], k[2]>> \in DOMAIN x.pso BY DEF Filed
  <2> DEFINE j == <<k[1], k[3], k[2]>>
  <2>2. <<j[1], j[3], j[2]>> = k BY <2>1
  <2>3. x.pos[<<j[1], j[3], j[2]>>] = x.pso[j] BY <2>1 DEF Filed
  <2> QED BY <2>1, <2>2, <2>3, <1>1
<1> QED BY <1>1, <1>2 DEF Filed

\* So is an index that is sound.
LEMMA IndexTyped ==
  ASSUME IndexInv,
         DOMAIN inverses \subseteq ID, \A i \in DOMAIN inverses : inverses[i] \in ID,
         pMask # NoMask => pMask \subseteq ID, dMask # NoMask => dMask \subseteq ID,
         finalized \in BOOLEAN
  PROVE  IndexTypeOK
<1>1. labels \in MapValue BY MapIDs DEF IndexInv, Sound
<1>2. data \subseteq ID BY DEF IndexInv, Sound, DataOK
<1>3. \A x \in {psoIndex, posIndex} :
         DOMAIN x \subseteq ID \X ID \X ID /\ \A k \in DOMAIN x : x[k] \in DOMAIN triples
  <2>1. Indexes.pso = psoIndex /\ Indexes.pos = posIndex BY DEF Indexes
  <2>2. Filed(Indexes, triples) BY DEF IndexInv, Sound
  <2> HIDE DEF Indexes
  <2> QED BY <2>1, <2>2, FiledTypes
<1>4. DOMAIN triples \subseteq TID /\ \A i \in DOMAIN triples : triples[i] \in IndexTriple
  BY DEF IndexInv, Sound, Numbered, Good
<1>5. triple \in 0..MaxTriple BY IndexAssumption DEF IndexInv, Sound, Numbered
<1>6. DOMAIN sources \subseteq Source /\ \A g \in DOMAIN sources : sources[g] \in TID
  BY DEF IndexInv, Sound, Numbered
<1>7. stats \in [StatNames -> Nat] BY DEF IndexInv, Sound, Filed, Indexes
<1> QED BY <1>1, <1>2, <1>3, <1>4, <1>5, <1>6, <1>7 DEF IndexTypeOK

-------------------------------------------------------------------------------
(* Storing triples *)

\* Labels, data and a source are added.
LEMMA SoundGrows ==
  ASSUME NEW m, NEW n, NEW ds, NEW es, NEW f, NEW h, NEW ts, NEW x, NEW tr, NEW ur,
         Sound(m, ds, f, ts, x, tr), MapInv(n), Grows(m, n), ds \subseteq es, DataOK(n, es),
         Numbered(ts, h, ur), \A g \in DOMAIN f : g \in DOMAIN h /\ h[g] = f[g]
  PROVE  Sound(n, es, h, ts, x, ur)
<1>1. \A i \in DOMAIN ts : Good(n, es, h, ts[i])
  BY GoodStays DEF Sound
<1> QED BY <1>1 DEF Sound

\* A good triple is stored under the next id and filed under its edge.
LEMMA Stored ==
  ASSUME NEW m, NEW ds, NEW f, NEW ts, NEW x, NEW tr, Sound(m, ds, f, ts, x, tr),
         tr + 1 =< MaxTriple, NEW t, Good(m, ds, f, t),
         NEW s \in ID, NEW p \in ID, NEW o \in ID, Edge(t) = <<p, s, o>>,
         NEW kind \in {"direct", "inverse", "datum"}
  PROVE  LET n == Put(ts, tr + 1, t)
             y == Insert(x, n, s, p, o, tr + 1, kind)
         IN  Sound(m, ds, f, n, y, tr + 1) /\ DOMAIN y.pso = DOMAIN x.pso \union {<<p, s, o>>}
<1> DEFINE n == Put(ts, tr + 1, t)
           y == Insert(x, n, s, p, o, tr + 1, kind)
<1>1. Numbered(ts, f, tr) /\ tr \in Nat /\ tr + 1 \in Nat BY DEF Sound, Numbered
<1>2. Numbered(n, f, tr + 1) BY <1>1, TripleNumbered
<1>3. t.role \in Nat BY DEF Good, IndexTriple, Regular, InverseRole, Data
<1>4. \A i \in DOMAIN ts : i \in Nat /\ i < tr + 1 BY <1>1 DEF Numbered, TID
<1>5. \A i \in DOMAIN ts : ts[i].role \in Nat
  BY DEF Sound, Good, IndexTriple, Regular, InverseRole, Data
<1>6. Filed(x, ts) BY DEF Sound
<1>7. Filed(y, n) /\ DOMAIN y.pso = DOMAIN x.pso \union {<<p, s, o>>}
  BY <1>1, <1>3, <1>4, <1>5, <1>6, InsertFiles
<1>8. DOMAIN n = DOMAIN ts \union {tr + 1} /\ n[tr + 1] = t
      /\ \A i \in DOMAIN ts : i # tr + 1 => n[i] = ts[i]
  BY DEF Put
<1>9. \A i \in DOMAIN n : Good(m, ds, f, n[i]) BY <1>8 DEF Sound
<1> QED BY <1>2, <1>7, <1>9 DEF Sound

\* Indexes' is what SetIndexes was given.
LEMMA IndexesSet ==
  ASSUME NEW x, SetIndexes(x)
  PROVE  Indexes'.pso = x.pso /\ Indexes'.pos = x.pos /\ Indexes'.stats = x.stats
BY DEF SetIndexes, Indexes

\* Only the two indexes and the counters of edges matter.
LEMMA SoundIndexes ==
  ASSUME NEW m, NEW ds, NEW f, NEW ts, NEW x, NEW tr, Sound(m, ds, f, ts, x, tr),
         NEW y, y.pso = x.pso, y.pos = x.pos, y.stats = x.stats
  PROVE  Sound(m, ds, f, ts, y, tr)
BY DEF Sound, Filed

\* A triple of the input, and the one inferred from it.
LEMMA AddTripleSound ==
  ASSUME IndexInv, \A i \in DOMAIN inverses : inverses[i] \in ID,
         NEW s \in Label, NEW p \in Label, NEW o \in Label, NEW g \in Source, AddTriple(s, p, o, g)
  PROVE  /\ IndexInv'
         /\ Grows(labels, labels') /\ Has(labels', s) /\ Has(labels', p) /\ Has(labels', o)
         /\ LET c == labels'.forward[p].canonical
                a == labels'.forward[s].canonical
                b == labels'.forward[o].canonical
            IN  DOMAIN psoIndex' = DOMAIN psoIndex \union {<<c, a, b>>}
                  \union (IF c \in DOMAIN inverses THEN {<<inverses[c], b, a>>} ELSE {})
<1> DEFINE m == labels'
           f == Put(sources, g, SourceID(g))
           tr == AfterSource(g)
           c == m.forward[p].canonical
           a == m.forward[s].canonical
           b == m.forward[o].canonical
           t == [role |-> Regular, source |-> SourceID(g),
                 items |-> <<m.forward[s], m.forward[p], m.forward[o]>>]
           u == [role |-> InverseRole, source |-> SourceID(g),
                 items |-> InverseItems(m.forward[s], inverses[c], m.forward[p], m.forward[o])]
           direct == Put(triples, tr + 1, t)
           both == Put(direct, tr + 1 + 1, u)
           first == Insert(Indexes, direct, a, c, b, tr + 1, "direct")
           second == Insert(first, both, b, inverses[c], a, tr + 1 + 1, "inverse")
<1>1. /\ m = AddNew(AddNew(AddNew(labels, p), s), o) /\ Room({s, p, o}, 3)
      /\ tr + 2 =< MaxTriple /\ sources' = f /\ data' = data
  BY DEF AddTriple
<1>2. IF c \notin DOMAIN inverses
      THEN triple' = tr + 1 /\ triples' = direct /\ SetIndexes(first)
      ELSE triple' = tr + 1 + 1 /\ triples' = both /\ SetIndexes(second)
  BY DEF AddTriple
<1>3. MapInv(labels) /\ DataOK(labels, data) /\ Numbered(triples, sources, triple)
  BY DEF IndexInv, Sound
<1>4. labels.id + 3 =< MaxID \/ (Has(labels, p) /\ Has(labels, s) /\ Has(labels, o))
  BY <1>1 DEF Room
<1>5. MapInv(m) /\ Has(m, p) /\ Has(m, s) /\ Has(m, o) /\ Grows(labels, m)
  BY <1>1, <1>3, <1>4, AddThreeGrows
<1>6. /\ tr \in Nat /\ tr + 1 =< MaxTriple /\ tr + 1 + 1 =< MaxTriple
  <2>1. tr \in Nat /\ MaxTriple \in Nat
    BY <1>3, IndexAssumption DEF AfterSource, Numbered
  <2> QED BY <2>1, <1>1
<1>7. /\ Numbered(triples, f, tr) /\ g \in DOMAIN f /\ f[g] = SourceID(g) /\ f[g] \in TID
      /\ \A h \in DOMAIN sources : h \in DOMAIN f /\ f[h] = sources[h]
  <2>1. /\ Numbered(triples, f, tr) /\ g \in DOMAIN f /\ f[g] = SourceID(g)
        /\ \A h \in DOMAIN sources : h \in DOMAIN f /\ f[h] = sources[h]
    BY <1>3, <1>6, SourceAdded
  <2> QED BY <2>1 DEF Numbered
<1>8. DataOK(m, data)
  <2>1. labels.id \in Nat /\ m.id \in Nat /\ labels.id =< m.id BY <1>3, <1>5, MapIDs DEF Grows
  <2>2. \A i \in data : i \in ID /\ i \in Nat /\ i =< labels.id /\ m.reverse[i] = NoLabel
    BY <1>3, <1>5 DEF DataOK, Grows, ID
  <2> QED BY <2>1, <2>2 DEF DataOK
<1> HIDE DEF m, f, tr
<1>9. Sound(m, data, f, triples, Indexes, tr)
  BY <1>5, <1>7, <1>8, SoundGrows DEF IndexInv
<1>10. a \in ID /\ b \in ID /\ c \in ID BY <1>5, KnownIDs
<1>11. Good(m, data, f, t) /\ Edge(t) = <<c, a, b>>
  BY <1>5, <1>7, DirectIsGood
<1> HIDE DEF a, b, c, t, u
<1>12. Sound(m, data, f, direct, first, tr + 1)
       /\ DOMAIN first.pso = DOMAIN Indexes.pso \union {<<c, a, b>>}
  BY <1>6, <1>9, <1>10, <1>11, Stored
<1>13. Indexes.pso = psoIndex /\ Indexes'.pso = psoIndex' BY DEF Indexes
<1>14. IndexInv' <=> Sound(m, data, f, triples', Indexes', triple')
  BY <1>1 DEF IndexInv, m
<1> HIDE DEF direct, both, first, second
<1>15. CASE c \notin DOMAIN inverses
  <2>1. triple' = tr + 1 /\ triples' = direct /\ SetIndexes(first) BY <1>2, <1>15
  <2>2. Indexes'.pso = first.pso /\ Indexes'.pos = first.pos /\ Indexes'.stats = first.stats
    BY <2>1, IndexesSet
  <2>3. Sound(m, data, f, triples', Indexes', triple') BY <1>12, <2>1, <2>2, SoundIndexes
  <2>4. DOMAIN psoIndex' = DOMAIN psoIndex \union {<<c, a, b>>} BY <1>12, <1>13, <2>2
  <2> QED BY <1>5, <1>14, <1>15, <2>3, <2>4 DEF a, b, c, m
<1>16. CASE c \in DOMAIN inverses
  <2>1. triple' = tr + 1 + 1 /\ triples' = both /\ SetIndexes(second) BY <1>2, <1>16
  <2>2. inverses[c] \in ID BY <1>16
  <2>3. Good(m, data, f, u) /\ Edge(u) = <<inverses[c], b, a>>
    BY <1>5, <1>7, <2>2, InverseIsGood DEF u, a, b
  <2>4. Sound(m, data, f, both, second, tr + 1 + 1)
        /\ DOMAIN second.pso = DOMAIN first.pso \union {<<inverses[c], b, a>>}
    BY <1>6, <1>10, <1>12, <2>2, <2>3, Stored DEF both, second
  <2>5. Indexes'.pso = second.pso /\ Indexes'.pos = second.pos /\ Indexes'.stats = second.stats
    BY <2>1, IndexesSet
  <2>6. Sound(m, data, f, triples', Indexes', triple') BY <2>1, <2>4, <2>5, SoundIndexes
  <2>7. DOMAIN psoIndex' = DOMAIN psoIndex \union {<<c, a, b>>} \union {<<inverses[c], b, a>>}
    BY <1>12, <1>13, <2>4, <2>5
  <2> QED BY <1>5, <1>14, <1>16, <2>6, <2>7 DEF a, b, c, m
<1> QED BY <1>15, <1>16

\* A datum of the input: its id is new.
LEMMA AddDataSound ==
  ASSUME IndexInv, NEW s \in Label, NEW p \in Label, NEW g \in Source, AddData(s, p, g)
  PROVE  /\ IndexInv'
         /\ Grows(labels, labels') /\ Has(labels', s) /\ Has(labels', p)
         /\ LET c == labels'.forward[p].canonical
                a == labels'.forward[s].canonical
            IN  \E d \in ID : /\ d > labels.id /\ d =< labels'.id /\ labels'.reverse[d] = NoLabel
                              /\ data' = data \union {d}
                              /\ DOMAIN psoIndex' = DOMAIN psoIndex \union {<<c, a, d>>}
<1> DEFINE known == NextID(AddNew(labels, p))
           d == known.id
           m == labels'
           f == Put(sources, g, SourceID(g))
           tr == AfterSource(g)
           c == m.forward[p].canonical
           a == m.forward[s].canonical
           es == data \union {d}
           t == [role |-> Data, source |-> SourceID(g),
                 items |-> <<m.forward[s], m.forward[p], [canonical |-> d, literal |-> d]>>]
           stored == Put(triples, tr + 1, t)
           x == Insert(Indexes, stored, a, c, d, tr + 1, "datum")
<1>1. /\ m = AddNew(known, s) /\ labels.id + 3 =< MaxID
      /\ tr + 1 =< MaxTriple /\ sources' = f /\ data' = es
  BY DEF AddData
<1>2. triple' = tr + 1 /\ triples' = stored /\ SetIndexes(x)
  BY <1>1 DEF AddData
<1>3. MapInv(labels) /\ DataOK(labels, data) /\ Numbered(triples, sources, triple)
  BY DEF IndexInv, Sound
<1>4. /\ MapInv(m) /\ Has(m, p) /\ Has(m, s) /\ Grows(labels, m)
      /\ d \in ID /\ d > labels.id /\ d =< m.id /\ m.reverse[d] = NoLabel
  BY <1>1, <1>3, AddDatumGrows
<1>5. /\ Numbered(triples, f, tr) /\ g \in DOMAIN f /\ f[g] = SourceID(g) /\ f[g] \in TID
      /\ \A h \in DOMAIN sources : h \in DOMAIN f /\ f[h] = sources[h]
  <2>1. /\ Numbered(triples, f, tr) /\ g \in DOMAIN f /\ f[g] = SourceID(g)
        /\ \A h \in DOMAIN sources : h \in DOMAIN f /\ f[h] = sources[h]
    BY <1>1, <1>3, SourceAdded
  <2> QED BY <2>1 DEF Numbered
<1>6. DataOK(m, es)
  <2>1. labels.id \in Nat /\ m.id \in Nat /\ labels.id =< m.id BY <1>3, <1>4, MapIDs DEF Grows
  <2>2. \A i \in data : i \in ID /\ i \in Nat /\ i =< labels.id /\ m.reverse[i] = NoLabel
    BY <1>3, <1>4 DEF DataOK, Grows, ID
  <2> QED BY <1>4, <2>1, <2>2 DEF DataOK
<1> HIDE DEF known, m, f, tr, d
<1>7. Sound(m, es, f, triples, Indexes, tr)
  BY <1>4, <1>5, <1>6, SoundGrows DEF IndexInv
<1>8. a \in ID /\ c \in ID BY <1>4, KnownIDs
<1>9. Good(m, es, f, t) /\ Edge(t) = <<c, a, d>>
  BY <1>4, <1>5, DatumIsGood
<1> HIDE DEF a, c, t
<1>10. Sound(m, es, f, stored, x, tr + 1)
       /\ DOMAIN x.pso = DOMAIN Indexes.pso \union {<<c, a, d>>}
  BY <1>1, <1>4, <1>7, <1>8, <1>9, Stored
<1>11. Indexes.pso = psoIndex /\ Indexes'.pso = psoIndex' BY DEF Indexes
<1>12. IndexInv' <=> Sound(m, es, f, triples', Indexes', triple')
  BY <1>1 DEF IndexInv, m
<1> HIDE DEF stored, x
<1>13. Indexes'.pso = x.pso /\ Indexes'.pos = x.pos /\ Indexes'.stats = x.stats
  BY <1>2, IndexesSet
<1>14. Sound(m, es, f, triples', Indexes', triple') BY <1>2, <1>10, <1>13, SoundIndexes
<1>15. DOMAIN psoIndex' = DOMAIN psoIndex \union {<<c, a, d>>} BY <1>10, <1>11, <1>13
<1> QED BY <1>1, <1>4, <1>12, <1>14, <1>15 DEF a, c, m

\* A triple that is masked out changes a counter that is not about edges.
LEMMA MaskedSound ==
  ASSUME IndexInv, NEW name \in {"maskedPred", "maskedData"}, stats' = Increase(stats, name),
         UNCHANGED <<labels, data, psoIndex, posIndex, triples, triple, sources>>
  PROVE  IndexInv'
<1>1. stats \in [StatNames -> Nat] BY DEF IndexInv, Sound, Filed, Indexes
<1>2. /\ stats' \in [StatNames -> Nat] /\ stats'["direct"] = stats["direct"]
      /\ stats'["inverse"] = stats["inverse"] /\ stats'["datum"] = stats["datum"]
      /\ stats'["conflict"] = stats["conflict"]
  BY <1>1 DEF Increase, StatNames
<1>3. /\ Indexes'.pso = Indexes.pso /\ Indexes'.pos = Indexes.pos
      /\ Indexes.stats = stats /\ Indexes'.stats = stats'
  BY DEF Indexes
<1>4. Filed(Indexes, triples) BY DEF IndexInv, Sound
<1> HIDE DEF Indexes
<1>5. Filed(Indexes', triples) BY <1>2, <1>3, <1>4 DEF Filed
<1> QED BY <1>5 DEF IndexInv, Sound

\* While nothing is filed, labels may be identified.
LEMMA EmptySound ==
  ASSUME IndexInv, StillEmpty, MapInv(labels)',
         UNCHANGED <<data, psoIndex, posIndex, triples, triple, sources, stats>>
  PROVE  IndexInv' /\ StillEmpty'
<1>1. Indexes' = Indexes BY DEF Indexes
<1> QED BY <1>1 DEF IndexInv, Sound, StillEmpty, DataOK

-------------------------------------------------------------------------------
(* Masks, identities and inverses *)

\* Nothing is known to begin with.
LEMMA EmptyPlain == Plain(EmptyMap) /\ \A l \in Label : ~Has(EmptyMap, l)
BY DEF Plain, EmptyMap, NoTripleID, Has

\* There is room for both sets when there is room for their union.
LEMMA RoomForBoth ==
  ASSUME NEW P, NEW D, IsFiniteSet(P), IsFiniteSet(D), NEW room \in Nat, NEW i \in Nat,
         i + Cardinality(P \union D) =< room
  PROVE  /\ i + Cardinality(P) =< room
         /\ (i + Cardinality(P)) + Cardinality(D \ P) =< room
<1> DEFINE Q == D \ P
<1>1. IsFiniteSet(Q) /\ Cardinality(P) \in Nat /\ Cardinality(Q) \in Nat
  <2>1. IsFiniteSet(Q) BY FS_Subset
  <2> QED BY <2>1, FS_CardinalityType
<1>2. P \union D = P \union Q /\ P \cap Q = {} OBVIOUS
<1> HIDE DEF Q
<1>3. Cardinality(P \union Q) = Cardinality(P) + Cardinality(Q) - Cardinality(P \cap Q)
  BY <1>1, FS_Union
<1>4. Cardinality(P \cap Q) = 0 BY <1>2, FS_EmptySet
<1>5. Cardinality(P \union D) = Cardinality(P \union Q) BY <1>2
<1>6. Cardinality(P \union D) = Cardinality(P) + Cardinality(Q)
  BY <1>1, <1>3, <1>4, <1>5
<1> QED BY <1>1, <1>6 DEF Q

MasksOf(ls) == ls \subseteq Label /\ IsFiniteSet(ls)

\* setMask: both masks hold the ids of the labels the pathbuilders name.
LEMMA MasksSet ==
  ASSUME labels = EmptyMap, pMask = NoMask, dMask = NoMask, mask \in Masks, SetMask
  PROVE  /\ MapInv(labels)' /\ pMask' \in {NoMask} \union SUBSET ID
         /\ dMask' \in {NoMask} \union SUBSET ID
         /\ MaskExact(pMask, mask.predicates)' /\ MaskExact(dMask, mask.data)'
         /\ mask.predicates # NoMask => mask.predicates \subseteq Label
         /\ mask.data # NoMask => mask.data \subseteq Label
         /\ UNCHANGED <<data, inverses, psoIndex, posIndex, triples, triple, sources, stats, finalized, mask>>
<1> DEFINE P == mask.predicates
           D == mask.data
<1>1. /\ (P = NoMask) <=> (D = NoMask)
      /\ P # NoMask => MasksOf(P)
      /\ D # NoMask => MasksOf(D)
  BY MakeIndexAssumption DEF MasksOf
<1>2. MapInv(labels) /\ mask' = mask BY EmptyMapInv DEF SetMask
<1>3. CASE P = NoMask
  <2>1. UNCHANGED indexVars BY <1>3 DEF SetMask
  <2> QED BY <1>1, <1>2, <1>3, <2>1 DEF indexVars, MaskExact
<1>4. CASE P # NoMask
  <2>1. /\ labels.id + Cardinality(Fresh(labels, P \union D)) =< MaxID
        /\ \E first \in Orders(labels, P) :
             \E second \in Orders(AddAll(labels, P, first), D) :
                labels' = AddAll(AddAll(labels, P, first), D, second)
        /\ pMask' = MaskOf(labels', P) /\ dMask' = MaskOf(labels', D)
        /\ UNCHANGED <<data, inverses, psoIndex, posIndex, triples, triple, sources, stats, finalized>>
    BY <1>4 DEF SetMask
  <2>21. PICK first \in Orders(labels, P) :
           \E second \in Orders(AddAll(labels, P, first), D) :
              labels' = AddAll(AddAll(labels, P, first), D, second)
    BY <2>1
  <2> DEFINE m == AddAll(labels, P, first)
  <2>2. PICK second \in Orders(m, D) : labels' = AddAll(m, D, second) BY <2>21
  <2> DEFINE n == AddAll(m, D, second)
  <2>3. P \subseteq Label /\ IsFiniteSet(P) /\ D \subseteq Label /\ IsFiniteSet(D)
    BY <1>1, <1>4 DEF MasksOf
  <2>4. \A l \in Label : ~Has(labels, l) BY EmptyPlain
  <2>5. Plain(labels) /\ labels.id \in Nat /\ MaxID \in Nat BY EmptyPlain, <1>2, MapIDs
  <2>6. Fresh(labels, P) = P /\ Fresh(labels, P \union D) = P \union D BY <2>3, <2>4 DEF Fresh
  <2>7. /\ labels.id + Cardinality(P) =< MaxID
        /\ (labels.id + Cardinality(P)) + Cardinality(D \ P) =< MaxID
    BY <2>1, <2>3, <2>5, <2>6, RoomForBoth
  <2>8. /\ MapInv(m) /\ Plain(m) /\ \A l \in Label : Has(m, l) <=> Has(labels, l) \/ l \in P
        /\ m.id = labels.id + Cardinality(P)
    BY <1>2, <2>2, <2>3, <2>5, <2>6, <2>7, AddAllGrows
  <2> HIDE DEF m
  <2>9. Fresh(m, D) = D \ P BY <2>3, <2>4, <2>8 DEF Fresh
  <2>10. second \in Orders(m, D) BY <2>2 DEF m
  <2>11. m.id + Cardinality(Fresh(m, D)) =< MaxID BY <2>7, <2>8, <2>9
  <2>12. /\ MapInv(n) /\ Plain(n) /\ Grows(m, n)
         /\ \A l \in Label : Has(n, l) <=> Has(m, l) \/ l \in D
    BY <2>3, <2>8, <2>10, <2>11, AddAllGrows
  <2>13. labels' = n BY <2>2 DEF m, n
  <2> HIDE DEF n
  <2>14. \A l \in P \union D : l \in Label /\ Has(n, l) BY <2>3, <2>8, <2>12
  <2>15. \A l \in P \union D : Forward(n, l) = n.forward[l].literal /\ Forward(n, l) \in ID
    BY <2>12, <2>14, KnownIDs DEF Plain, Forward
  <2>16. pMask' = {n.forward[l].literal : l \in P} /\ dMask' = {n.forward[l].literal : l \in D}
    BY <2>1, <2>13, <2>15 DEF MaskOf
  <2>17. pMask' \subseteq ID /\ dMask' \subseteq ID BY <2>15, <2>16
  <2>18. pMask' # NoMask /\ dMask' # NoMask BY <2>17, IndexAssumption
  <2>19. MaskExact(pMask, P)' /\ MaskExact(dMask, D)'
    BY <1>1, <1>2, <1>4, <2>13, <2>14, <2>16, <2>18 DEF MaskExact
  <2> QED BY <1>2, <2>1, <2>3, <2>12, <2>13, <2>17, <2>19
<1> QED BY <1>3, <1>4

\* Known labels keep their literal ids when two of them are identified.
LEMMA Identified ==
  ASSUME MapInv(labels), NEW same \in Label, NEW old \in Label, MarkIdenticalCall(same, old)
  PROVE  /\ MapInv(labels)'
         /\ \A l \in Label : Has(labels, l) =>
               Has(labels', l) /\ labels'.forward[l].literal = labels.forward[l].literal
<1>1. labels' = MarkIdentical(labels, same, old) BY DEF MarkIdenticalCall
<1>2. (Has(labels, same) /\ Has(labels, old)) \/ labels.id + 1 < MaxID
  BY MapIDs DEF MarkIdenticalCall, Room
<1>3. MapInv(labels)' BY <1>1, <1>2, MarkIdenticalInv
<1>4. \A l \in Label : /\ labels'.forward[l].literal = BothAdded(labels, same, old).forward[l].literal
                       /\ Has(labels', l) <=> Has(BothAdded(labels, same, old), l)
  BY <1>1, <1>2, MarkIdenticalMoves
<1>5. \A l \in Label : Has(labels, l) => BothAdded(labels, same, old).forward[l] = labels.forward[l]
  BY <1>2, KnownKept
<1> QED BY <1>3, <1>4, <1>5 DEF Has

\* MarkInverse records the pair both ways.
LEMMA InverseMarked ==
  ASSUME MapInv(labels), NEW left \in Label, NEW right \in Label, MarkInverse(left, right)
  PROVE  LET l == labels'.forward[left].canonical
             r == labels'.forward[right].canonical
         IN  /\ MapInv(labels)' /\ Grows(labels, labels') /\ Has(labels', left) /\ Has(labels', right)
             /\ l \in ID /\ r \in ID
             /\ left = right => inverses' = inverses
             /\ left # right =>
                  /\ DOMAIN inverses' = DOMAIN inverses \union {l, r}
                  /\ inverses'[l] = r /\ inverses'[r] = l
                  /\ \A c \in DOMAIN inverses \ {l, r} : inverses'[c] = inverses[c]
<1> DEFINE l == labels'.forward[left].canonical
           r == labels'.forward[right].canonical
<1>1. /\ labels' = AddNew(AddNew(labels, left), right)
      /\ inverses' = IF labels'.forward[left] = labels'.forward[right] THEN inverses
                     ELSE Put(Put(inverses, l, r), r, l)
      /\ Room({left, right}, 2)
  BY DEF MarkInverse, BothAdded
<1>2. labels.id + 2 =< MaxID \/ (Has(labels, left) /\ Has(labels, right)) BY <1>1 DEF Room
<1>3. MapInv(labels') /\ Grows(labels, labels') /\ Has(labels', left) /\ Has(labels', right)
  BY <1>1, <1>2, AddTwoGrows
<1>4. l \in ID /\ r \in ID BY <1>3, KnownIDs
<1>5. labels'.forward[left] = labels'.forward[right] => left = right
  <2>1. labels'.reverse[labels'.forward[left].literal] = left BY <1>3, KnownIDs
  <2>2. labels'.reverse[labels'.forward[right].literal] = right BY <1>3, KnownIDs
  <2> QED BY <2>1, <2>2
<1> HIDE DEF l, r
<1>6. ASSUME left # right
      PROVE  /\ DOMAIN inverses' = DOMAIN inverses \union {l, r}
             /\ inverses'[l] = r /\ inverses'[r] = l
             /\ \A c \in DOMAIN inverses \ {l, r} : inverses'[c] = inverses[c]
  <2>1. inverses' = Put(Put(inverses, l, r), r, l) BY <1>1, <1>5, <1>6
  <2> QED BY <2>1 DEF Put
<1>7. left = right => inverses' = inverses BY <1>1
<1> QED BY <1>3, <1>4, <1>6, <1>7 DEF l, r

-------------------------------------------------------------------------------
(* Every step keeps the index sound *)

\* The tokens of the input.
LEMMA TokensTyped ==
  ASSUME source \in Inputs
  PROVE  /\ Len(source) \in Nat /\ DOMAIN source = 1 .. Len(source)
         /\ \A i \in 1 .. Len(source) :
               /\ source[i].s \in Label /\ source[i].p \in Label /\ source[i].g \in Source
               /\ source[i].o # Datum => source[i].o \in Label
<1>1. source \in Seq([s : Label, p : Label, o : Label \union {Datum}, g : Source])
  BY MakeIndexAssumption
<1> DEFINE T == [s : Label, p : Label, o : Label \union {Datum}, g : Source]
<1>2. \A t \in T : /\ t.s \in Label /\ t.p \in Label /\ t.g \in Source
                   /\ t.o # Datum => t.o \in Label
  OBVIOUS
<1> HIDE DEF T
<1>3. source \in Seq(T) BY <1>1 DEF T
<1>4. /\ Len(source) \in Nat /\ DOMAIN source = 1 .. Len(source)
      /\ \A i \in 1 .. Len(source) : source[i] \in T
  BY <1>3
<1> QED BY <1>2, <1>4

\* The token a pass is at.
LEMMA TokenTyped ==
  ASSUME source \in Inputs, cursor \in 1..(Len(source) + 1), ~AtEnd
  PROVE  /\ cursor \in 1 .. Len(source) /\ cursor + 1 \in 1..(Len(source) + 1)
         /\ Token.s \in Label /\ Token.p \in Label /\ Token.g \in Source
         /\ Token.o # Datum => Token.o \in Label
<1>1. Len(source) \in Nat BY TokensTyped
<1>2. cursor \in 1 .. Len(source) /\ cursor + 1 \in 1..(Len(source) + 1) BY <1>1 DEF AtEnd
<1> QED BY <1>2, TokensTyped DEF Token

\* The types, when the index is sound.
TypesBeside ==
    /\ DOMAIN inverses \subseteq ID /\ \A i \in DOMAIN inverses : inverses[i] \in ID
    /\ pMask # NoMask => pMask \subseteq ID
    /\ dMask # NoMask => dMask \subseteq ID
    /\ finalized \in BOOLEAN

MakeTypes ==
    /\ source \in Inputs /\ mask \in Masks
    /\ cursor \in 1..(Len(source) + 1)
    /\ phase \in Phases
    /\ handles \subseteq Storages

\* What soundness does not say about the types.
LEMMA TypesSplit ==
  IndexInv => (TypeOK <=> TypesBeside /\ MakeTypes)
<1>1. TypeOK => TypesBeside /\ MakeTypes BY DEF TypeOK, IndexTypeOK, TypesBeside, MakeTypes
<1>2. IndexInv /\ TypesBeside => IndexTypeOK BY IndexTyped DEF TypesBeside
<1> QED BY <1>1, <1>2 DEF TypeOK, MakeTypes

\* The same, of the next state.
LEMMA TypesSplitNext ==
  IndexInv' => (TypeOK' <=> TypesBeside' /\ MakeTypes')
BY TypesSplit, PTL

\* A new index is sound.
LEMMA InitInv == Init => Inv
<1> SUFFICES ASSUME Init PROVE Inv OBVIOUS
<1>1. /\ labels = EmptyMap /\ data = {} /\ inverses = Nothing /\ psoIndex = Nothing
      /\ posIndex = Nothing /\ triples = Nothing /\ pMask = NoMask /\ dMask = NoMask
      /\ triple = 0 /\ sources = Nothing /\ stats = [n \in StatNames |-> 0] /\ finalized = FALSE
  BY DEF Init, IndexInit
<1>2. DOMAIN Nothing = {} BY DEF Nothing
<1>3. Filed(Indexes, triples)
  <2>1. IsFiniteSet({}) /\ Cardinality({}) = 0 BY FS_EmptySet
  <2>2. Indexes.pso = Nothing /\ Indexes.pos = Nothing /\ Indexes.stats = stats
    BY <1>1 DEF Indexes
  <2>3. /\ stats \in [StatNames -> Nat]
        /\ stats["direct"] + stats["inverse"] + stats["datum"] = 0 /\ stats["conflict"] = 0
    BY <1>1 DEF StatNames
  <2> HIDE DEF Indexes, Nothing
  <2> QED BY <1>1, <1>2, <2>1, <2>2, <2>3 DEF Filed
<1>4. Numbered(triples, sources, triple) BY <1>1, <1>2, IndexAssumption DEF Numbered
<1>5. IndexInv
  BY <1>1, <1>2, <1>3, <1>4, EmptyMapInv DEF IndexInv, Sound, DataOK
<1>6. Passes BY <1>1, <1>2 DEF Passes, StillEmpty
<1>7. TypesBeside BY <1>1, <1>2 DEF TypesBeside
<1>8. MakeTypes
  <2>1. source \in Inputs /\ mask \in Masks /\ cursor = 1 /\ phase = "mask" /\ handles = Storages
    BY DEF Init
  <2>2. Len(source) \in Nat BY <2>1, TokensTyped
  <2> QED BY <2>1, <2>2 DEF MakeTypes, Phases
<1> QED BY <1>5, <1>6, <1>7, <1>8, TypesSplit DEF Inv

\* A step that leaves the index alone leaves it sound.
LEMMA UnchangedInv ==
  ASSUME IndexInv, UNCHANGED indexVars
  PROVE  IndexInv'
BY DEF IndexInv, indexVars, Indexes

\* setMask adds labels to an index that is empty.
LEMMA SetMaskInv == ASSUME Inv, SetMask PROVE Inv'
<1>1. phase = "mask" /\ phase' = "sameAs" /\ UNCHANGED <<source, mask, cursor, handles>>
  BY DEF SetMask
<1>2. labels = EmptyMap /\ pMask = NoMask /\ dMask = NoMask /\ StillEmpty /\ DOMAIN inverses = {}
  BY <1>1 DEF Inv, Passes
<1>3. IndexInv /\ TypesBeside /\ MakeTypes BY TypesSplit DEF Inv
<1>4. /\ MapInv(labels)' /\ pMask' \in {NoMask} \union SUBSET ID
      /\ dMask' \in {NoMask} \union SUBSET ID
      /\ UNCHANGED <<data, inverses, psoIndex, posIndex, triples, triple, sources, stats, finalized, mask>>
  BY <1>2, <1>3, MasksSet DEF MakeTypes
<1>5. IndexInv' /\ StillEmpty' BY <1>2, <1>3, <1>4, EmptySound
<1>6. TypesBeside' BY <1>3, <1>4 DEF TypesBeside
<1>7. MakeTypes' BY <1>1, <1>3 DEF MakeTypes, Phases
<1>8. Passes' BY <1>1, <1>2, <1>4, <1>5 DEF Passes
<1> QED BY <1>5, <1>6, <1>7, <1>8, TypesSplitNext DEF Inv

\* The first pass identifies labels while nothing is filed.
LEMMA ScanSameAsInv == ASSUME Inv, ScanSameAs PROVE Inv'
<1>1. /\ phase = "sameAs" /\ ~AtEnd /\ cursor' = cursor + 1
      /\ UNCHANGED <<source, mask, phase, handles>>
  BY DEF ScanSameAs
<1>2. IndexInv /\ TypesBeside /\ MakeTypes BY TypesSplit DEF Inv
<1>3. StillEmpty /\ DOMAIN inverses = {} /\ MapInv(labels) BY <1>1, <1>2 DEF Inv, Passes, IndexInv, Sound
<1>4. IndexInv' /\ StillEmpty' /\ UNCHANGED <<inverses, pMask, dMask, finalized>>
  <2>1. CASE Token.o # Datum /\ Token.p \in SameAs
    <3>1. MarkIdenticalCall(Token.s, Token.o) BY <2>1 DEF ScanSameAs
    <3>2. Token.s \in Label /\ Token.o \in Label BY <1>1, <1>2, <2>1, TokenTyped DEF MakeTypes
    <3>3. MapInv(labels)' BY <1>3, <3>1, <3>2, Identified
    <3> QED BY <1>2, <1>3, <3>1, <3>3, EmptySound DEF MarkIdenticalCall
  <2>2. CASE ~(Token.o # Datum /\ Token.p \in SameAs)
    <3>1. UNCHANGED indexVars BY <2>2 DEF ScanSameAs
    <3> QED BY <1>2, <1>3, <3>1, UnchangedInv DEF indexVars, StillEmpty
  <2> QED BY <2>1, <2>2
<1>5. MakeTypes' BY <1>1, <1>2, TokenTyped DEF MakeTypes
<1>6. TypesBeside' BY <1>2, <1>4 DEF TypesBeside
<1>7. Passes' BY <1>1, <1>3, <1>4 DEF Passes
<1> QED BY <1>4, <1>5, <1>6, <1>7, TypesSplitNext DEF Inv

\* The second pass records inverses while nothing is filed.
LEMMA ScanInverseInv == ASSUME Inv, ScanInverse PROVE Inv'
<1>1. /\ phase = "inverse" /\ ~AtEnd /\ cursor' = cursor + 1
      /\ UNCHANGED <<source, mask, phase, handles>>
  BY DEF ScanInverse
<1>2. IndexInv /\ TypesBeside /\ MakeTypes BY TypesSplit DEF Inv
<1>3. StillEmpty /\ MapInv(labels) BY <1>1, <1>2 DEF Inv, Passes, IndexInv, Sound
<1>4. /\ IndexInv' /\ StillEmpty' /\ UNCHANGED <<pMask, dMask, finalized>>
      /\ DOMAIN inverses' \subseteq ID /\ \A i \in DOMAIN inverses' : inverses'[i] \in ID
  <2>1. CASE Token.o # Datum /\ Token.p \in InverseOf
    <3> DEFINE l == labels'.forward[Token.s].canonical
               r == labels'.forward[Token.o].canonical
    <3>1. MarkInverse(Token.s, Token.o) BY <2>1 DEF ScanInverse
    <3>2. Token.s \in Label /\ Token.o \in Label BY <1>1, <1>2, <2>1, TokenTyped DEF MakeTypes
    <3>3. /\ MapInv(labels)' /\ l \in ID /\ r \in ID
          /\ Token.s = Token.o => inverses' = inverses
          /\ Token.s # Token.o =>
               /\ DOMAIN inverses' = DOMAIN inverses \union {l, r}
               /\ inverses'[l] = r /\ inverses'[r] = l
               /\ \A c \in DOMAIN inverses \ {l, r} : inverses'[c] = inverses[c]
      BY <1>3, <3>1, <3>2, InverseMarked
    <3>4. IndexInv' /\ StillEmpty' /\ UNCHANGED <<pMask, dMask, finalized>>
      BY <1>2, <1>3, <3>1, <3>3, EmptySound DEF MarkInverse
    <3> HIDE DEF l, r
    <3>5. DOMAIN inverses' \subseteq ID /\ \A i \in DOMAIN inverses' : inverses'[i] \in ID
      BY <1>2, <3>3 DEF TypesBeside
    <3> QED BY <3>4, <3>5
  <2>2. CASE ~(Token.o # Datum /\ Token.p \in InverseOf)
    <3>1. UNCHANGED indexVars BY <2>2 DEF ScanInverse
    <3> QED BY <1>2, <1>3, <3>1, UnchangedInv DEF indexVars, StillEmpty, TypesBeside
  <2> QED BY <2>1, <2>2
<1>5. MakeTypes' BY <1>1, <1>2, TokenTyped DEF MakeTypes
<1>6. TypesBeside' BY <1>2, <1>4 DEF TypesBeside
<1>7. Passes' BY <1>1, <1>4 DEF Passes
<1> QED BY <1>4, <1>5, <1>6, <1>7, TypesSplitNext DEF Inv

\* The third pass files triples and data, and identifies nothing.
LEMMA ScanTriplesInv == ASSUME Inv, ScanTriples PROVE Inv'
<1>1. /\ phase = "triples" /\ ~AtEnd /\ cursor' = cursor + 1
      /\ UNCHANGED <<source, mask, phase, handles>>
  BY DEF ScanTriples
<1>2. IndexInv /\ TypesBeside /\ MakeTypes BY TypesSplit DEF Inv
<1>3. Token.s \in Label /\ Token.p \in Label /\ Token.g \in Source
      /\ (Token.o # Datum => Token.o \in Label)
  BY <1>1, <1>2, TokenTyped DEF MakeTypes
<1>4. IndexInv' /\ UNCHANGED <<inverses, pMask, dMask, finalized>>
  <2>1. CASE MaskData(Token.p) BY <1>2, <2>1, MaskedSound DEF MaskData
  <2>2. CASE MaskTriple(Token.p) BY <1>2, <2>2, MaskedSound DEF MaskTriple
  <2>3. CASE AddData(Token.s, Token.p, Token.g)
    <3>1. IndexInv' BY <1>2, <1>3, <2>3, AddDataSound
    <3> QED BY <2>3, <3>1 DEF AddData
  <2>4. CASE Token.o # Datum /\ AddTriple(Token.s, Token.p, Token.o, Token.g)
    <3>1. IndexInv' BY <1>2, <1>3, <2>4, AddTripleSound DEF TypesBeside
    <3> QED BY <2>4, <3>1 DEF AddTriple
  <2> QED BY <2>1, <2>2, <2>3, <2>4 DEF ScanTriples
<1>5. MakeTypes' BY <1>1, <1>2, TokenTyped DEF MakeTypes
<1>6. TypesBeside' BY <1>2, <1>4 DEF TypesBeside
<1>7. Passes' BY <1>1 DEF Passes
<1> QED BY <1>4, <1>5, <1>6, <1>7, TypesSplitNext DEF Inv

\* The steps that do not touch the contents of the index.
LEMMA OtherInv ==
  ASSUME Inv, EndPass \/ FinalizeStep \/ Fail \/ CloseIndex \/ Ended \/ UNCHANGED vars
  PROVE  Inv'
<1>1. IndexInv /\ TypesBeside /\ MakeTypes BY TypesSplit DEF Inv
<1>2. UNCHANGED <<labels, data, inverses, psoIndex, posIndex, triples, pMask, dMask, triple, sources, stats>>
  BY DEF EndPass, FinalizeStep, FinalizeIndex, Fail, CloseIndex, Ended, vars, indexVars
<1>3. IndexInv' BY <1>1, <1>2 DEF IndexInv, Indexes
<1>4. finalized' \in BOOLEAN
  BY <1>1 DEF TypesBeside, EndPass, FinalizeStep, FinalizeIndex, Fail, CloseIndex, Ended, vars, indexVars
<1>5. TypesBeside' BY <1>1, <1>2, <1>4 DEF TypesBeside
<1>6. MakeTypes' /\ Passes'
  <2>1. CASE EndPass
    <3>1. /\ phase \in {"sameAs", "inverse", "triples"} /\ phase' = AfterPass(phase) /\ cursor' = 1
          /\ UNCHANGED <<source, mask, handles>>
      BY <2>1 DEF EndPass, Rewind
    <3>2. phase' \in {"inverse", "triples", "finalize"} /\ (phase' = "inverse" => phase = "sameAs")
      BY <3>1 DEF AfterPass
    <3>3. 1 \in 1..(Len(source) + 1) BY <1>1, TokensTyped DEF MakeTypes
    <3>4. MakeTypes' BY <1>1, <3>1, <3>2, <3>3 DEF MakeTypes, Phases
    <3>5. StillEmpty' <=> StillEmpty BY <1>2 DEF StillEmpty
    <3> QED BY <3>2, <3>4, <3>5 DEF Inv, Passes
  <2>2. CASE FinalizeStep \/ Fail \/ CloseIndex
    <3>1. phase' \in {"done", "failed", "closed"} /\ UNCHANGED <<source, mask, cursor>>
          /\ handles' \subseteq handles
      BY <2>2 DEF FinalizeStep, Fail, CloseIndex
    <3> QED BY <1>1, <3>1 DEF MakeTypes, Phases, Passes
  <2>3. CASE Ended \/ UNCHANGED vars
    <3>1. UNCHANGED vars BY <2>3 DEF Ended
    <3> QED BY <1>1, <3>1 DEF MakeTypes, Passes, Inv, StillEmpty, vars, indexVars, makeVars
  <2> QED BY <2>1, <2>2, <2>3
<1> QED BY <1>3, <1>5, <1>6, TypesSplitNext DEF Inv

\* The invariant is inductive.
LEMMA NextInv == Inv /\ [Next]_vars => Inv'
<1> SUFFICES ASSUME Inv, [Next]_vars PROVE Inv' OBVIOUS
<1> QED BY SetMaskInv, ScanSameAsInv, ScanInverseInv, ScanTriplesInv, OtherInv DEF Next

\* After every call of MakeIndex the index is sound: every edge is filed in both
\* indexes, triples and sources are numbered by one counter, and every stored id
\* resolves and is current (Index.AddTriple, AddData, MarkIdentical).
THEOREM InductiveInvariant == Spec => []Inv
BY InitInv, NextInv, PTL DEF Spec

\* Type correctness of the index and the reader (Index, MakeIndex).
THEOREM TypeCorrect == Spec => []TypeOK
<1>1. Inv => TypeOK BY DEF Inv
<1> QED BY <1>1, InductiveInvariant, PTL

\* insert writes psoIndex and posIndex apart, and yet they hold the same edges
\* under the same triples.
THEOREM AlwaysMirrored == Spec => []Mirrored
<1>1. Inv => Mirrored
  <2>1. Filed(Indexes, triples) /\ Indexes.pso = psoIndex /\ Indexes.pos = posIndex => Mirrored
    BY DEF Filed, Mirrored
  <2> QED BY <2>1 DEF Inv, IndexInv, Sound, Indexes
<1> QED BY <1>1, InductiveInvariant, PTL

\* An edge is labelled with its best triple, in whatever order the triples came
\* (resolveLabelConflict).
THEOREM AlwaysBestLabel == Spec => []BestLabel
<1>1. Inv => BestLabel
  <2> SUFFICES ASSUME Inv, NEW k \in DOMAIN psoIndex
               PROVE  /\ psoIndex[k] \in FiledUnder(k)
                      /\ \A i \in FiledUnder(k) :
                            \/ triples[psoIndex[k]].role < triples[i].role
                            \/ triples[psoIndex[k]].role = triples[i].role /\ psoIndex[k] =< i
    BY DEF BestLabel
  <2>1. Best(triples, k, psoIndex[k]) BY DEF Inv, IndexInv, Sound, Filed, Indexes
  <2> QED BY <2>1 DEF Best, FiledUnder
<1> QED BY <1>1, InductiveInvariant, PTL

\* The canonical ids of inverses, and of the predicates of triples, stand for
\* labels.
PredicatesNamed ==
    /\ \A i \in DOMAIN inverses : labels.reverse[inverses[i]] # NoLabel
    /\ \A i \in DOMAIN triples : labels.reverse[triples[i].items[2].canonical] # NoLabel

\* An id that stands for a label goes on to stand for it.
LEMMA NamesStay ==
  ASSUME MapInv(labels), Grows(labels, labels'), NEW i \in ID, labels.reverse[i] # NoLabel
  PROVE  labels'.reverse[i] # NoLabel
<1>1. i =< labels.id BY DEF MapInv, MutuallyInverse
<1> QED BY <1>1 DEF Grows

\* A step that adds labels keeps names, and so do triples and inverses that stay.
LEMMA NamesOfOld ==
  ASSUME Inv, PredicatesNamed, Grows(labels, labels')
  PROVE  /\ \A i \in DOMAIN inverses : labels'.reverse[inverses[i]] # NoLabel
         /\ \A i \in DOMAIN triples : labels'.reverse[triples[i].items[2].canonical] # NoLabel
<1>1. IndexInv /\ TypesBeside BY TypesSplit DEF Inv
<1>2. MapInv(labels) /\ \A i \in DOMAIN inverses : inverses[i] \in ID
  BY <1>1 DEF IndexInv, Sound, TypesBeside
<1>3. \A i \in DOMAIN triples : triples[i].items[2].canonical \in ID
  <2>1. 2 \in 1..3 OBVIOUS
  <2> QED BY <1>1, <2>1 DEF IndexInv, Sound, Good
<1> QED BY <1>2, <1>3, NamesStay DEF PredicatesNamed

\* AddTriple and AddData store canonical ids of predicates and of inverses.
LEMMA StoredNamed ==
  ASSUME Inv, PredicatesNamed, NEW s \in Label, NEW p \in Label, NEW o \in Label, NEW g \in Source,
         AddTriple(s, p, o, g) \/ AddData(s, p, g)
  PROVE  PredicatesNamed'
<1>1. IndexInv /\ TypesBeside BY TypesSplit DEF Inv
<1>2. IndexInv' /\ Grows(labels, labels') /\ Has(labels', p)
  BY <1>1, AddTripleSound, AddDataSound DEF TypesBeside
<1>3. inverses' = inverses BY DEF AddTriple, AddData
<1>4. /\ \A i \in DOMAIN inverses : labels'.reverse[inverses[i]] # NoLabel
      /\ \A i \in DOMAIN triples : labels'.reverse[triples[i].items[2].canonical] # NoLabel
  BY <1>2, NamesOfOld
<1> DEFINE c == labels'.forward[p].canonical
           Named(t) == labels'.reverse[t.items[2].canonical] # NoLabel
<1>5. labels'.reverse[c] # NoLabel
  <2>1. MapInv(labels') BY <1>2 DEF IndexInv, Sound
  <2> QED BY <1>2, <2>1, KnownIDs
<1>6. \A i \in DOMAIN triples : Named(triples[i]) BY <1>4
<1>7. ASSUME NEW ts, \A i \in DOMAIN ts : Named(ts[i]), NEW id, NEW t, Named(t)
      PROVE  \A i \in DOMAIN Put(ts, id, t) : Named(Put(ts, id, t)[i])
  <2> HIDE DEF Named
  <2> QED BY <1>7 DEF Put
<1>8. \A i \in DOMAIN triples' : Named(triples'[i])
  <2>1. CASE AddTriple(s, p, o, g)
    <3> DEFINE a == labels'.forward[s]
               b == labels'.forward[o]
               id == AfterSource(g) + 1
               t == [role |-> Regular, source |-> SourceID(g), items |-> <<a, labels'.forward[p], b>>]
               u == [role |-> InverseRole, source |-> SourceID(g),
                     items |-> InverseItems(a, inverses[c], labels'.forward[p], b)]
               direct == Put(triples, id, t)
               both == Put(direct, id + 1, u)
    <3>1. triples' = direct \/ (c \in DOMAIN inverses /\ triples' = both) BY <2>1 DEF AddTriple
    <3>2. t.items[2].canonical = c /\ u.items[2].canonical = inverses[c] BY DEF InverseItems
    <3>3. Named(t) BY <1>5, <3>2
    <3>4. c \in DOMAIN inverses => Named(u) BY <1>4, <3>2
    <3> HIDE DEF Named, c, t, u
    <3>5. \A i \in DOMAIN direct : Named(direct[i]) BY <1>6, <1>7, <3>3
    <3> HIDE DEF direct
    <3>6. c \in DOMAIN inverses => \A i \in DOMAIN both : Named(both[i]) BY <1>7, <3>4, <3>5
    <3> QED BY <3>1, <3>5, <3>6
  <2>2. CASE AddData(s, p, g)
    <3> DEFINE withDatum == NextID(AddNew(labels, p))
               d == withDatum.id
               id == AfterSource(g) + 1
               t == [role |-> Data, source |-> SourceID(g),
                     items |-> <<labels'.forward[s], labels'.forward[p], [canonical |-> d, literal |-> d]>>]
    <3>1. triples' = Put(triples, id, t) BY <2>2 DEF AddData
    <3>2. t.items[2].canonical = c OBVIOUS
    <3>3. Named(t) BY <1>5, <3>2
    <3> HIDE DEF Named, c, t, id
    <3> QED BY <1>6, <1>7, <3>1, <3>3
  <2> QED BY <2>1, <2>2
<1> QED BY <1>3, <1>4, <1>8 DEF PredicatesNamed

\* MarkInverse stores canonical ids.
LEMMA MarkedNamed ==
  ASSUME Inv, PredicatesNamed, NEW left \in Label, NEW right \in Label, MarkInverse(left, right)
  PROVE  PredicatesNamed'
<1> DEFINE l == labels'.forward[left].canonical
           r == labels'.forward[right].canonical
<1>1. MapInv(labels) BY TypesSplit DEF Inv, IndexInv, Sound
<1>2. /\ MapInv(labels)' /\ Grows(labels, labels') /\ Has(labels', left) /\ Has(labels', right)
      /\ left = right => inverses' = inverses
      /\ left # right =>
            /\ DOMAIN inverses' = DOMAIN inverses \union {l, r}
            /\ inverses'[l] = r /\ inverses'[r] = l
            /\ \A c \in DOMAIN inverses \ {l, r} : inverses'[c] = inverses[c]
  BY <1>1, InverseMarked
<1>3. MapInv(labels') BY <1>2
<1>4. labels'.reverse[l] # NoLabel /\ labels'.reverse[r] # NoLabel BY <1>2, <1>3, KnownIDs
<1>5. /\ \A i \in DOMAIN inverses : labels'.reverse[inverses[i]] # NoLabel
      /\ \A i \in DOMAIN triples : labels'.reverse[triples[i].items[2].canonical] # NoLabel
  BY <1>2, NamesOfOld
<1>6. triples' = triples BY DEF MarkInverse
<1> HIDE DEF l, r
<1>7. \A i \in DOMAIN inverses' : labels'.reverse[inverses'[i]] # NoLabel
  <2>1. CASE left = right BY <1>2, <1>5, <2>1
  <2>2. CASE left # right BY <1>2, <1>4, <1>5, <2>2
  <2> QED BY <2>1, <2>2
<1> QED BY <1>5, <1>6, <1>7 DEF PredicatesNamed

\* So do the passes.
LEMMA NextNamed == Inv /\ PredicatesNamed /\ [Next]_vars => PredicatesNamed'
<1> SUFFICES ASSUME Inv, PredicatesNamed, [Next]_vars PROVE PredicatesNamed' OBVIOUS
<1>0. IndexInv /\ MakeTypes BY TypesSplit DEF Inv
<1>1. CASE SetMask \/ ScanSameAs
  <2>1. DOMAIN inverses = {} /\ DOMAIN triples = {}
    BY <1>1 DEF Inv, Passes, StillEmpty, SetMask, ScanSameAs
  <2>2. inverses' = inverses /\ triples' = triples
    BY <1>1 DEF SetMask, ScanSameAs, MarkIdenticalCall, indexVars
  <2> QED BY <2>1, <2>2 DEF PredicatesNamed
<1>2. CASE ScanInverse
  <2>1. UNCHANGED indexVars \/ (Token.o # Datum /\ MarkInverse(Token.s, Token.o)) BY <1>2 DEF ScanInverse
  <2>2. CASE UNCHANGED indexVars BY <2>2 DEF indexVars, PredicatesNamed
  <2>3. CASE Token.o # Datum /\ MarkInverse(Token.s, Token.o)
    <3>1. Token.s \in Label /\ Token.o \in Label BY <1>0, <1>2, <2>3, TokenTyped DEF MakeTypes, ScanInverse
    <3> QED BY <2>3, <3>1, MarkedNamed
  <2> QED BY <2>1, <2>2, <2>3
<1>3. CASE ScanTriples
  <2>1. /\ Token.s \in Label /\ Token.p \in Label /\ Token.g \in Source
        /\ Token.o # Datum => Token.o \in Label
    BY <1>0, <1>3, TokenTyped DEF MakeTypes, ScanTriples
  <2>2. CASE MaskData(Token.p) \/ MaskTriple(Token.p)
    BY <2>2 DEF MaskData, MaskTriple, PredicatesNamed
  <2>3. CASE AddData(Token.s, Token.p, Token.g) BY <2>1, <2>3, StoredNamed
  <2>4. CASE Token.o # Datum /\ AddTriple(Token.s, Token.p, Token.o, Token.g)
    BY <2>1, <2>4, StoredNamed
  <2> QED BY <1>3, <2>2, <2>3, <2>4 DEF ScanTriples
<1>4. CASE EndPass \/ FinalizeStep \/ Fail \/ CloseIndex \/ Ended \/ UNCHANGED vars
  <2>1. UNCHANGED <<labels, inverses, triples>>
    BY <1>4 DEF EndPass, FinalizeStep, FinalizeIndex, Fail, CloseIndex, Ended, vars, indexVars
  <2> QED BY <2>1 DEF PredicatesNamed
<1> QED BY <1>1, <1>2, <1>3, <1>4 DEF Next

\* Every id of a stored triple can be turned back into its label or datum.
LEMMA TriplesCanBeResolved == Inv /\ PredicatesNamed => TriplesResolve
<1> SUFFICES ASSUME Inv, PredicatesNamed, NEW i \in DOMAIN triples
             PROVE  LET t == triples[i]
                        named(n) == /\ labels.reverse[t.items[n].literal] # NoLabel
                                    /\ labels.reverse[t.items[n].canonical] # NoLabel
                    IN  /\ \E g \in DOMAIN sources : sources[g] = t.source
                        /\ named(1) /\ named(2)
                        /\ IF t.role = Data THEN t.items[3].literal \in data ELSE named(3)
  BY DEF TriplesResolve
<1> DEFINE t == triples[i]
<1>1. MapInv(labels) /\ Good(labels, data, sources, t) BY DEF Inv, IndexInv, Sound
<1>2. labels.reverse[t.items[2].canonical] # NoLabel BY DEF PredicatesNamed
<1> HIDE DEF t
<1>3. ASSUME NEW j \in ID, labels.reverse[j] # NoLabel
      PROVE  labels.reverse[NowID(labels, j)] # NoLabel
  <2>1. labels.reverse[j] \in Label /\ labels.forward[labels.reverse[j]].literal = j
    BY <1>1, <1>3 DEF MapInv, MapValue, MutuallyInverse
  <2>2. Has(labels, labels.reverse[j]) BY <2>1 DEF Has, ID, NoID
  <2> QED BY <1>1, <1>3, <2>1, <2>2, KnownIDs DEF NowID, Forward
<1>4. 1 \in 1..3 /\ 2 \in 1..3 /\ 3 \in 1..3 /\ 1 \in 1..2 /\ 2 \in 1..2 OBVIOUS
<1>5. \A n \in 1..3 : t.items[n].literal \in ID BY <1>1 DEF Good
<1>6. CASE t.role = InverseRole
  <2>1. t.role # Data BY <1>6 DEF InverseRole, Data
  <2> QED BY <1>1, <1>2, <1>3, <1>4, <1>5, <1>6, <2>1 DEF Good, t
<1>7. CASE t.role # InverseRole
  BY <1>1, <1>2, <1>3, <1>4, <1>5, <1>7 DEF Good, t
<1> QED BY <1>6, <1>7

\* Labels, data, triples and sources draw on two counters, and no id means two
\* things; every id a query can reach resolves (Index.Triple, Index.GetDatum).
THEOREM IDsAreUnambiguous == Spec => []IDsMeanOneThing
<1>1. Init => Inv /\ PredicatesNamed
  <2>1. Init => PredicatesNamed BY DEF Init, IndexInit, Nothing, PredicatesNamed
  <2> QED BY <2>1, InitInv
<1>2. Inv /\ PredicatesNamed /\ [Next]_vars => Inv' /\ PredicatesNamed' BY NextInv, NextNamed
<1>3. Inv /\ PredicatesNamed => IDsMeanOneThing
  <2> SUFFICES ASSUME Inv, PredicatesNamed PROVE IDsMeanOneThing OBVIOUS
  <2>1. DataOK(labels, data) /\ Numbered(triples, sources, triple) BY DEF Inv, IndexInv, Sound
  <2> QED BY <2>1, TriplesCanBeResolved DEF IDsMeanOneThing, DataOK, Numbered
<1> QED BY <1>1, <1>2, <1>3, PTL DEF Spec

\* The canonical ids an edge was stored under are still canonical: owl:sameAs is
\* read in a pass of its own before anything is stored (MakeIndex).
THEOREM AlwaysCurrent == Spec => []CanonicalsAreCurrent
<1>1. Inv => CanonicalsAreCurrent
  <2> SUFFICES ASSUME Inv, NEW i \in DOMAIN triples
               PROVE  LET t == triples[i]
                          now(n) == IF labels.reverse[t.items[n].literal] = NoLabel THEN t.items[n].literal
                                    ELSE C(labels.reverse[t.items[n].literal])
                      IN  IF t.role = InverseRole
                          THEN t.items[1].canonical = now(3) /\ t.items[3].canonical = now(1)
                          ELSE \A n \in 1..3 : t.items[n].canonical = now(n)
    BY DEF CanonicalsAreCurrent
  <2>1. Good(labels, data, sources, triples[i]) BY DEF Inv, IndexInv, Sound
  <2> QED BY <2>1 DEF Good, NowID, C
<1> QED BY <1>1, InductiveInvariant, PTL

-------------------------------------------------------------------------------
(* The index says what the input says *)

\* The tokens MarkInverse records.
InverseToken(t) == t.o # Datum /\ t.p \in InverseOf /\ t.s # t.o

\* What the first n tokens of src say about inverses, in terms of the classes
\* of the map m.
Paired(m, src, n, c, d) ==
    \E i \in 1..n : /\ InverseToken(src[i])
                    /\ \/ Forward(m, src[i].s) = c /\ Forward(m, src[i].o) = d
                       \/ Forward(m, src[i].o) = c /\ Forward(m, src[i].s) = d
OnePartner(m, src, n) ==
    \A c, d, e \in ID : Paired(m, src, n, c, d) /\ Paired(m, src, n, c, e) => d = e

InversesKnown(m, src, n) ==
    \A i \in 1..n : InverseToken(src[i]) => Has(m, src[i].s) /\ Has(m, src[i].o)

\* As long as nothing has two partners, inv holds the pairs.
InversesExact(m, src, n, inv) ==
    OnePartner(m, src, n) =>
       \A c \in ID : /\ (c \in DOMAIN inv) <=> \E d \in ID : Paired(m, src, n, c, d)
                     /\ c \in DOMAIN inv => Paired(m, src, n, c, inv[c])

\* What the first n tokens say about edges, with the masks mk.
KeptObject(mk, t) == t.o # Datum /\ Admitted(mk.predicates, t)
KeptDatum(mk, t) == t.o = Datum /\ Admitted(mk.data, t)
EdgesKnown(m, mk, src, n) ==
    \A i \in 1..n :
       /\ KeptObject(mk, src[i]) \/ KeptDatum(mk, src[i]) => Has(m, src[i].s) /\ Has(m, src[i].p)
       /\ KeptObject(mk, src[i]) => Has(m, src[i].o)

\* The edges of one token: the one it states, and the one of its inverse.
EdgesOf(m, inv, t) ==
    LET c == Forward(m, t.p)
        a == Forward(m, t.s)
        b == Forward(m, t.o)
    IN  {<<c, a, b>>} \union (IF c \in DOMAIN inv THEN {<<inv[c], b, a>>} ELSE {})
ObjectEdges(m, mk, src, n, inv, edges, ds) ==
    \A k \in ID \X ID \X ID :
       (k \in edges /\ k[3] \notin ds) <=>
          \E i \in 1..n : KeptObject(mk, src[i]) /\ k \in EdgesOf(m, inv, src[i])

DatumEdges(edges, ds, c, d) == {k \in edges : k[1] = c /\ k[2] = d /\ k[3] \in ds}
DatumTokens(m, mk, src, n, c, d) ==
    {i \in 1..n : KeptDatum(mk, src[i]) /\ Forward(m, src[i].p) = c /\ Forward(m, src[i].s) = d}
DataEdges(m, mk, src, n, edges, ds) ==
    \A c, d \in ID :
       Cardinality(DatumEdges(edges, ds, c, d)) = Cardinality(DatumTokens(m, mk, src, n, c, d))

InversesUpTo(m, src, n, inv) == InversesKnown(m, src, n) /\ InversesExact(m, src, n, inv)
EdgesUpTo(m, mk, src, n, inv, edges, ds) ==
    /\ EdgesKnown(m, mk, src, n)
    /\ ObjectEdges(m, mk, src, n, inv, edges, ds)
    /\ DataEdges(m, mk, src, n, edges, ds)

InversesDone(n) == InversesUpTo(labels, source, n, inverses)
EdgesDone(n) == EdgesUpTo(labels, mask, source, n, inverses, DOMAIN psoIndex, data)

\* Each pass has done its part for the tokens it has read.
PassesExact ==
    /\ phase \in {"sameAs", "inverse", "triples"} =>
          MaskExact(pMask, mask.predicates) /\ MaskExact(dMask, mask.data)
    /\ phase = "inverse" => InversesDone(cursor - 1)
    /\ phase \in {"triples", "finalize", "done"} => InversesDone(Len(source))
    /\ phase = "triples" => EdgesDone(cursor - 1)
    /\ phase \in {"finalize", "done"} => EdgesDone(Len(source))

\* Known labels stay in their class after the first pass.
LEMMA ClassStays ==
  ASSUME NEW m, NEW w, Grows(m, w), NEW l \in Label, Has(m, l)
  PROVE  Forward(w, l) = Forward(m, l) /\ Has(w, l)
BY DEF Grows, Forward, Has

\* The class of a known label is no datum.
LEMMA ClassIsID ==
  ASSUME NEW m, MapInv(m), NEW l \in Label, Has(m, l)
  PROVE  Forward(m, l) \in ID /\ \A ds : DataOK(m, ds) => Forward(m, l) \notin ds
<1>1. Forward(m, l) \in ID /\ m.reverse[Forward(m, l)] # NoLabel BY KnownIDs DEF Forward
<1> QED BY <1>1 DEF DataOK

\* A datum that is added has an id above those of all edges.
LEMMA EdgeIDs ==
  ASSUME IndexInv, NEW k \in DOMAIN psoIndex
  PROVE  k \in ID \X ID \X ID /\ k[3] =< labels.id
<1>1. /\ MapInv(labels) /\ DataOK(labels, data)
      /\ k \in ID \X ID \X ID /\ Best(triples, k, psoIndex[k])
      /\ \A i \in DOMAIN triples : Good(labels, data, sources, triples[i])
  BY DEF IndexInv, Sound, Filed, Indexes
<1> DEFINE t == triples[psoIndex[k]]
<1>2. Good(labels, data, sources, t) /\ Edge(t) = k BY <1>1 DEF Best
<1> HIDE DEF t
<1>3. k[3] = t.items[3].canonical BY <1>2 DEF Edge
<1>4. ASSUME NEW i \in ID, i \in data \/ labels.reverse[i] # NoLabel PROVE NowID(labels, i) =< labels.id
  <2>1. CASE labels.reverse[i] = NoLabel BY <1>1, <1>4, <2>1 DEF NowID, DataOK
  <2>2. CASE labels.reverse[i] # NoLabel
    <3>1. labels.reverse[i] \in Label /\ labels.forward[labels.reverse[i]].literal = i
      BY <1>1, <2>2 DEF MapInv, MapValue, MutuallyInverse
    <3>2. Has(labels, labels.reverse[i]) BY <3>1 DEF Has, ID, NoID
    <3> QED BY <1>1, <2>2, <3>1, <3>2, KnownIDs DEF NowID, Forward
  <2> QED BY <2>1, <2>2
<1>5. \A n \in 1..3 : /\ t.items[n].literal \in ID
                      /\ t.items[n].literal \in data \/ labels.reverse[t.items[n].literal] # NoLabel
  BY <1>2 DEF Good
<1>6. \A n \in 1..3 : NowID(labels, t.items[n].literal) =< labels.id BY <1>4, <1>5
<1>7. 1 \in 1..3 /\ 3 \in 1..3 OBVIOUS
<1>8. \E n \in 1..3 : t.items[3].canonical = NowID(labels, t.items[n].literal)
  BY <1>2, <1>7 DEF Good
<1> QED BY <1>1, <1>3, <1>6, <1>8

\* The numbers of the tokens read, after one more.
LEMMA OneMore ==
  ASSUME NEW n \in Nat
  PROVE  1..(n + 1) = 1..n \union {n + 1}
OBVIOUS

\* A mask stays exact while known labels keep their literal ids.
LEMMA MaskStays ==
  ASSUME NEW mk, NEW ls, MaskExact(mk, ls), ls # NoMask => ls \subseteq Label,
         \A l \in Label : Has(labels, l) =>
            Has(labels', l) /\ labels'.forward[l].literal = labels.forward[l].literal
  PROVE  MaskExact(mk, ls)'
<1>1. CASE ls = NoMask BY <1>1 DEF MaskExact
<1>2. CASE ls # NoMask
  <2>1. mk # NoMask /\ mk = {labels.forward[l].literal : l \in ls}
        /\ \A l \in ls : l \in Label /\ Has(labels, l)
    BY <1>2 DEF MaskExact
  <2>2. \A l \in ls : Has(labels', l) /\ labels'.forward[l].literal = labels.forward[l].literal
    BY <2>1
  <2>3. mk = {labels'.forward[l].literal : l \in ls} BY <2>1, <2>2
  <2> QED BY <1>2, <2>1, <2>2, <2>3 DEF MaskExact
<1> QED BY <1>1, <1>2

\* The masks of the pathbuilders are sets of labels.
LEMMA MasksTyped ==
  ASSUME mask \in Masks
  PROVE  /\ mask.predicates # NoMask => mask.predicates \subseteq Label
         /\ mask.data # NoMask => mask.data \subseteq Label
BY MakeIndexAssumption

\* The tokens src are of the form TokensTyped says.
TokensOK(src) ==
    \A i \in 1 .. Len(src) : /\ src[i].s \in Label /\ src[i].p \in Label /\ src[i].g \in Source
                             /\ src[i].o # Datum => src[i].o \in Label

\* Whoever was said to be somebody's inverse still is.
LEMMA PairedStays ==
  ASSUME NEW m, NEW w, Grows(m, w), NEW src, TokensOK(src), Len(src) \in Nat,
         NEW n \in 0 .. Len(src), InversesKnown(m, src, n)
  PROVE  /\ InversesKnown(w, src, n)
         /\ \A c, d \in ID : Paired(w, src, n, c, d) <=> Paired(m, src, n, c, d)
<1>1. \A i \in 1..n : i \in 1 .. Len(src) OBVIOUS
<1>2. ASSUME NEW i \in 1..n, InverseToken(src[i])
      PROVE  /\ Forward(w, src[i].s) = Forward(m, src[i].s) /\ Has(w, src[i].s)
             /\ Forward(w, src[i].o) = Forward(m, src[i].o) /\ Has(w, src[i].o)
  <2>1. src[i].s \in Label /\ src[i].o \in Label BY <1>1, <1>2 DEF InverseToken, TokensOK
  <2>2. Has(m, src[i].s) /\ Has(m, src[i].o) BY <1>2 DEF InversesKnown
  <2> QED BY <2>1, <2>2, ClassStays
<1>3. InversesKnown(w, src, n) BY <1>2 DEF InversesKnown
<1>4. ASSUME NEW c \in ID, NEW d \in ID PROVE Paired(w, src, n, c, d) <=> Paired(m, src, n, c, d)
  BY <1>2 DEF Paired
<1> QED BY <1>3, <1>4

\* The inverses stay exact while labels are added.
LEMMA InversesStay ==
  ASSUME NEW m, NEW w, Grows(m, w), NEW src, TokensOK(src), Len(src) \in Nat,
         NEW n \in 0 .. Len(src), NEW inv, \A i \in DOMAIN inv : inv[i] \in ID,
         InversesUpTo(m, src, n, inv)
  PROVE  InversesUpTo(w, src, n, inv)
<1>1. /\ InversesKnown(w, src, n)
      /\ \A c, d \in ID : Paired(w, src, n, c, d) <=> Paired(m, src, n, c, d)
  BY PairedStays DEF InversesUpTo
<1>2. OnePartner(w, src, n) => OnePartner(m, src, n) BY <1>1 DEF OnePartner
<1>3. InversesExact(w, src, n, inv)
  BY <1>1, <1>2 DEF InversesUpTo, InversesExact
<1> QED BY <1>1, <1>3 DEF InversesUpTo

\* One more token says something about inverses.
LEMMA OneMorePair ==
  ASSUME NEW m, NEW w, Grows(m, w), NEW src, TokensOK(src), Len(src) \in Nat,
         NEW n \in 0 .. Len(src), n + 1 =< Len(src), NEW inv, NEW inw,
         InversesUpTo(m, src, n, inv), \A i \in DOMAIN inv : i \in ID /\ inv[i] \in ID,
         InverseToken(src[n + 1]), Has(w, src[n + 1].s), Has(w, src[n + 1].o),
         NEW l \in ID, NEW r \in ID, l = Forward(w, src[n + 1].s), r = Forward(w, src[n + 1].o),
         DOMAIN inw = DOMAIN inv \union {l, r}, inw[l] = r, inw[r] = l,
         \A c \in DOMAIN inv \ {l, r} : inw[c] = inv[c]
  PROVE  InversesUpTo(w, src, n + 1, inw)
<1>1. n \in Nat /\ n + 1 \in 1 .. Len(src) OBVIOUS
<1>2. /\ InversesKnown(w, src, n)
      /\ \A c, d \in ID : Paired(w, src, n, c, d) <=> Paired(m, src, n, c, d)
  BY PairedStays DEF InversesUpTo
<1>3. InversesKnown(w, src, n + 1) BY <1>1, <1>2, OneMore DEF InversesKnown
<1>4. ASSUME NEW c \in ID, NEW d \in ID
      PROVE  Paired(w, src, n + 1, c, d) <=>
                Paired(m, src, n, c, d) \/ (c = l /\ d = r) \/ (c = r /\ d = l)
  <2>1. Paired(w, src, n + 1, c, d) <=>
           Paired(w, src, n, c, d) \/ (l = c /\ r = d) \/ (r = c /\ l = d)
    BY <1>1, OneMore DEF Paired
  <2> QED BY <1>2, <2>1
<1>5. ASSUME OnePartner(w, src, n + 1), NEW c \in ID
      PROVE  /\ (c \in DOMAIN inw) <=> \E d \in ID : Paired(w, src, n + 1, c, d)
             /\ c \in DOMAIN inw => Paired(w, src, n + 1, c, inw[c])
  <2>1. OnePartner(m, src, n) BY <1>4, <1>5 DEF OnePartner
  <2>2. \A x \in ID : /\ (x \in DOMAIN inv) <=> \E d \in ID : Paired(m, src, n, x, d)
                      /\ x \in DOMAIN inv => Paired(m, src, n, x, inv[x])
    BY <2>1 DEF InversesUpTo, InversesExact
  <2>3. CASE c = l BY <1>4, <2>3
  <2>4. CASE c = r BY <1>4, <2>4
  <2>5. CASE c # l /\ c # r BY <1>4, <2>2, <2>5
  <2> QED BY <2>3, <2>4, <2>5
<1>6. InversesExact(w, src, n + 1, inw) BY <1>5 DEF InversesExact
<1> QED BY <1>3, <1>6 DEF InversesUpTo

\* One more token says nothing about inverses.
LEMMA NoMorePair ==
  ASSUME NEW m, NEW src, NEW n \in Nat, NEW inv, InversesUpTo(m, src, n, inv),
         ~InverseToken(src[n + 1])
  PROVE  InversesUpTo(m, src, n + 1, inv)
<1>1. InversesKnown(m, src, n + 1) BY OneMore DEF InversesUpTo, InversesKnown
<1>2. \A c, d \in ID : Paired(m, src, n + 1, c, d) <=> Paired(m, src, n, c, d)
  BY OneMore DEF Paired
<1>3. \A c, d : Paired(m, src, n + 1, c, d) <=> Paired(m, src, n, c, d)
  BY OneMore DEF Paired
<1>4. OnePartner(m, src, n + 1) => OnePartner(m, src, n) BY <1>2 DEF OnePartner
<1>5. InversesExact(m, src, n + 1, inv)
  BY <1>2, <1>3, <1>4 DEF InversesUpTo, InversesExact
<1> QED BY <1>1, <1>5 DEF InversesUpTo

EdgesSame(m, w, mk, src, n, inv) ==
    /\ EdgesKnown(w, mk, src, n)
    /\ \A i \in 1..n : KeptObject(mk, src[i]) => EdgesOf(w, inv, src[i]) = EdgesOf(m, inv, src[i])
    /\ \A c, d : DatumTokens(w, mk, src, n, c, d) = DatumTokens(m, mk, src, n, c, d)

\* What the tokens so far say about edges stays as it is when labels are added.
LEMMA EdgesStay ==
  ASSUME NEW m, NEW w, Grows(m, w), NEW src, TokensOK(src), Len(src) \in Nat,
         NEW n \in 0 .. Len(src), NEW mk, NEW inv, EdgesKnown(m, mk, src, n)
  PROVE  EdgesSame(m, w, mk, src, n, inv)
<1>1. \A i \in 1..n : i \in 1 .. Len(src) OBVIOUS
<1>2. ASSUME NEW i \in 1..n, KeptObject(mk, src[i]) \/ KeptDatum(mk, src[i])
      PROVE  /\ Forward(w, src[i].s) = Forward(m, src[i].s) /\ Has(w, src[i].s)
             /\ Forward(w, src[i].p) = Forward(m, src[i].p) /\ Has(w, src[i].p)
  <2>1. src[i].s \in Label /\ src[i].p \in Label BY <1>1 DEF TokensOK
  <2>2. Has(m, src[i].s) /\ Has(m, src[i].p) BY <1>2 DEF EdgesKnown
  <2> QED BY <2>1, <2>2, ClassStays
<1>3. ASSUME NEW i \in 1..n, KeptObject(mk, src[i])
      PROVE  Forward(w, src[i].o) = Forward(m, src[i].o) /\ Has(w, src[i].o)
  <2>1. src[i].o \in Label BY <1>1, <1>3 DEF TokensOK, KeptObject
  <2>2. Has(m, src[i].o) BY <1>3 DEF EdgesKnown
  <2> QED BY <2>1, <2>2, ClassStays
<1>4. EdgesKnown(w, mk, src, n) BY <1>2, <1>3 DEF EdgesKnown
<1>5. ASSUME NEW i \in 1..n, KeptObject(mk, src[i])
      PROVE  EdgesOf(w, inv, src[i]) = EdgesOf(m, inv, src[i])
  BY <1>2, <1>3, <1>5 DEF EdgesOf
<1>6. \A c, d : DatumTokens(w, mk, src, n, c, d) = DatumTokens(m, mk, src, n, c, d)
  BY <1>2 DEF DatumTokens
<1> QED BY <1>4, <1>5, <1>6 DEF EdgesSame

\* A triple is stored: one more token, and its edges.
LEMMA ObjectStored ==
  ASSUME NEW m, NEW w, Grows(m, w), MapInv(w), NEW src, TokensOK(src), Len(src) \in Nat,
         NEW n \in 0 .. Len(src), n + 1 =< Len(src), NEW mk,
         NEW inv, \A i \in DOMAIN inv : inv[i] \in ID, NEW edges, NEW ds, DataOK(w, ds),
         EdgesUpTo(m, mk, src, n, inv, edges, ds), KeptObject(mk, src[n + 1]),
         Has(w, src[n + 1].s), Has(w, src[n + 1].p), Has(w, src[n + 1].o)
  PROVE  EdgesUpTo(w, mk, src, n + 1, inv, edges \union EdgesOf(w, inv, src[n + 1]), ds)
<1> DEFINE t == src[n + 1]
           c == Forward(w, t.p)
           a == Forward(w, t.s)
           b == Forward(w, t.o)
           new == EdgesOf(w, inv, t)
<1>0. EdgesKnown(m, mk, src, n) BY DEF EdgesUpTo
<1>1. n \in Nat /\ t.s \in Label /\ t.p \in Label /\ t.o \in Label /\ t.o # Datum
  BY DEF TokensOK, KeptObject
<1>2. /\ EdgesKnown(w, mk, src, n)
      /\ \A i \in 1..n : KeptObject(mk, src[i]) => EdgesOf(w, inv, src[i]) = EdgesOf(m, inv, src[i])
      /\ \A x, y : DatumTokens(w, mk, src, n, x, y) = DatumTokens(m, mk, src, n, x, y)
  <2>1. EdgesSame(m, w, mk, src, n, inv) BY <1>0, EdgesStay
  <2> QED BY <2>1 DEF EdgesSame
<1>3. /\ c \in ID /\ c \notin ds /\ a \in ID /\ a \notin ds /\ b \in ID /\ b \notin ds
  BY <1>1, ClassIsID
<1>4. \A k \in new : k \in ID \X ID \X ID /\ k[3] \notin ds
  BY <1>3 DEF EdgesOf
<1>5. EdgesKnown(w, mk, src, n + 1) BY <1>1, <1>2, OneMore DEF EdgesKnown
<1> HIDE DEF new, a, b, c
<1>6. ObjectEdges(w, mk, src, n + 1, inv, edges \union new, ds)
  <2> SUFFICES ASSUME NEW k \in ID \X ID \X ID
               PROVE  (k \in edges \union new /\ k[3] \notin ds) <=>
                         \E i \in 1..(n + 1) : KeptObject(mk, src[i]) /\ k \in EdgesOf(w, inv, src[i])
    BY DEF ObjectEdges
  <2>1. (k \in edges /\ k[3] \notin ds) <=>
           \E i \in 1..n : KeptObject(mk, src[i]) /\ k \in EdgesOf(m, inv, src[i])
    BY DEF EdgesUpTo, ObjectEdges
  <2>2. (\E i \in 1..n : KeptObject(mk, src[i]) /\ k \in EdgesOf(m, inv, src[i])) <=>
           \E i \in 1..n : KeptObject(mk, src[i]) /\ k \in EdgesOf(w, inv, src[i])
    BY <1>2
  <2>3. (\E i \in 1..(n + 1) : KeptObject(mk, src[i]) /\ k \in EdgesOf(w, inv, src[i])) <=>
           \/ \E i \in 1..n : KeptObject(mk, src[i]) /\ k \in EdgesOf(w, inv, src[i])
           \/ k \in new
    BY <1>1, OneMore DEF new
  <2> QED BY <1>4, <2>1, <2>2, <2>3
<1>7. DataEdges(w, mk, src, n + 1, edges \union new, ds)
  <2> SUFFICES ASSUME NEW x \in ID, NEW y \in ID
               PROVE  Cardinality(DatumEdges(edges \union new, ds, x, y)) =
                      Cardinality(DatumTokens(w, mk, src, n + 1, x, y))
    BY DEF DataEdges
  <2>1. DatumEdges(edges \union new, ds, x, y) = DatumEdges(edges, ds, x, y)
    BY <1>4 DEF DatumEdges
  <2>2. ~KeptDatum(mk, t) BY <1>1 DEF KeptDatum
  <2>3. DatumTokens(w, mk, src, n + 1, x, y) = DatumTokens(w, mk, src, n, x, y)
    BY <1>1, <2>2, OneMore DEF DatumTokens
  <2> QED BY <1>2, <2>1, <2>3 DEF EdgesUpTo, DataEdges
<1> QED BY <1>5, <1>6, <1>7 DEF EdgesUpTo, new

\* A datum is stored: one more token, and one more edge.
LEMMA DatumStored ==
  ASSUME NEW m, NEW w, Grows(m, w), MapInv(w), NEW src, TokensOK(src), Len(src) \in Nat,
         NEW n \in 0 .. Len(src), n + 1 =< Len(src), NEW mk, NEW inv,
         NEW edges, IsFiniteSet(edges), NEW ds, NEW d \in ID, d \notin ds, \A k \in edges : k[3] # d,
         EdgesUpTo(m, mk, src, n, inv, edges, ds), KeptDatum(mk, src[n + 1]),
         Has(w, src[n + 1].s), Has(w, src[n + 1].p),
         NEW e, e = <<Forward(w, src[n + 1].p), Forward(w, src[n + 1].s), d>>
  PROVE  EdgesUpTo(w, mk, src, n + 1, inv, edges \union {e}, ds \union {d})
<1> DEFINE t == src[n + 1]
           new == edges \union {e}
           es == ds \union {d}
<1>0. EdgesKnown(m, mk, src, n) BY DEF EdgesUpTo
<1>1. n \in Nat /\ n + 1 \in Nat /\ t.o = Datum /\ ~KeptObject(mk, t) BY DEF KeptObject, KeptDatum
<1>2. /\ EdgesKnown(w, mk, src, n)
      /\ \A i \in 1..n : KeptObject(mk, src[i]) => EdgesOf(w, inv, src[i]) = EdgesOf(m, inv, src[i])
      /\ \A x, y : DatumTokens(w, mk, src, n, x, y) = DatumTokens(m, mk, src, n, x, y)
  <2>1. EdgesSame(m, w, mk, src, n, inv) BY <1>0, EdgesStay
  <2> QED BY <2>1 DEF EdgesSame
<1>3. EdgesKnown(w, mk, src, n + 1) BY <1>1, <1>2, OneMore DEF EdgesKnown
<1>4. e[1] = Forward(w, t.p) /\ e[2] = Forward(w, t.s) /\ e[3] = d /\ e \notin edges
  OBVIOUS
<1> HIDE DEF new, es
<1>5. ObjectEdges(w, mk, src, n + 1, inv, new, es)
  <2> SUFFICES ASSUME NEW k \in ID \X ID \X ID
               PROVE  (k \in new /\ k[3] \notin es) <=>
                         \E i \in 1..(n + 1) : KeptObject(mk, src[i]) /\ k \in EdgesOf(w, inv, src[i])
    BY DEF ObjectEdges
  <2>1. (k \in edges /\ k[3] \notin ds) <=>
           \E i \in 1..n : KeptObject(mk, src[i]) /\ k \in EdgesOf(m, inv, src[i])
    BY DEF EdgesUpTo, ObjectEdges
  <2>2. (\E i \in 1..n : KeptObject(mk, src[i]) /\ k \in EdgesOf(m, inv, src[i])) <=>
           \E i \in 1..n : KeptObject(mk, src[i]) /\ k \in EdgesOf(w, inv, src[i])
    BY <1>2
  <2>3. (\E i \in 1..(n + 1) : KeptObject(mk, src[i]) /\ k \in EdgesOf(w, inv, src[i])) <=>
           \E i \in 1..n : KeptObject(mk, src[i]) /\ k \in EdgesOf(w, inv, src[i])
    BY <1>1, OneMore
  <2>4. (k \in new /\ k[3] \notin es) <=> (k \in edges /\ k[3] \notin ds)
    BY <1>4 DEF new, es
  <2> QED BY <2>1, <2>2, <2>3, <2>4
<1>6. DataEdges(w, mk, src, n + 1, new, es)
  <2> SUFFICES ASSUME NEW x \in ID, NEW y \in ID
               PROVE  Cardinality(DatumEdges(new, es, x, y)) =
                      Cardinality(DatumTokens(w, mk, src, n + 1, x, y))
    BY DEF DataEdges
  <2> DEFINE E == DatumEdges(edges, ds, x, y)
             T == DatumTokens(w, mk, src, n, x, y)
             here == Forward(w, t.p) = x /\ Forward(w, t.s) = y
  <2>1. IsFiniteSet(E)
    <3>1. E \subseteq edges BY DEF DatumEdges
    <3> QED BY <3>1, FS_Subset
  <2>2. IsFiniteSet(T)
    <3>1. T \subseteq 1..n BY DEF DatumTokens
    <3>2. IsFiniteSet(1..n) BY <1>1, FS_Interval
    <3> QED BY <3>1, <3>2, FS_Subset
  <2>3. Cardinality(E) = Cardinality(T) BY <1>2 DEF EdgesUpTo, DataEdges
  <2>4. DatumEdges(new, es, x, y) = E \union (IF here THEN {e} ELSE {})
    BY <1>4 DEF DatumEdges, new, es
  <2>5. DatumTokens(w, mk, src, n + 1, x, y) = T \union (IF here THEN {n + 1} ELSE {})
    BY <1>1, OneMore DEF DatumTokens
  <2>6. e \notin E /\ n + 1 \notin T BY <1>1, <1>4 DEF DatumEdges, DatumTokens
  <2> HIDE DEF E, T, here
  <2>7. CASE here
    <3>1. Cardinality(E \union {e}) = Cardinality(E) + 1 BY <2>1, <2>6, FS_AddElement
    <3>2. Cardinality(T \union {n + 1}) = Cardinality(T) + 1 BY <2>2, <2>6, FS_AddElement
    <3> QED BY <2>3, <2>4, <2>5, <2>7, <3>1, <3>2
  <2>8. CASE ~here BY <2>3, <2>4, <2>5, <2>8
  <2> QED BY <2>7, <2>8
<1> QED BY <1>3, <1>5, <1>6 DEF EdgesUpTo, new, es

\* A token is masked out: nothing is stored, and nothing was to be.
LEMMA TokenMasked ==
  ASSUME NEW m, NEW src, NEW n \in Nat, NEW mk, NEW inv, NEW edges, NEW ds,
         EdgesUpTo(m, mk, src, n, inv, edges, ds),
         ~KeptObject(mk, src[n + 1]), ~KeptDatum(mk, src[n + 1])
  PROVE  EdgesUpTo(m, mk, src, n + 1, inv, edges, ds)
<1>1. EdgesKnown(m, mk, src, n + 1) BY OneMore DEF EdgesUpTo, EdgesKnown
<1>2. \A k : (\E i \in 1..(n + 1) : KeptObject(mk, src[i]) /\ k \in EdgesOf(m, inv, src[i])) <=>
             \E i \in 1..n : KeptObject(mk, src[i]) /\ k \in EdgesOf(m, inv, src[i])
  BY OneMore
<1>3. ObjectEdges(m, mk, src, n + 1, inv, edges, ds) BY <1>2 DEF EdgesUpTo, ObjectEdges
<1>4. \A x, y : DatumTokens(m, mk, src, n + 1, x, y) = DatumTokens(m, mk, src, n, x, y)
  BY OneMore DEF DatumTokens
<1>5. DataEdges(m, mk, src, n + 1, edges, ds) BY <1>4 DEF EdgesUpTo, DataEdges
<1> QED BY <1>1, <1>3, <1>5 DEF EdgesUpTo

\* Before the third pass there is nothing, and nothing was to be.
LEMMA NoEdgesYet ==
  ASSUME NEW m, NEW src, NEW mk, NEW inv
  PROVE  EdgesUpTo(m, mk, src, 0, inv, {}, {})
<1>1. 1..0 = {} OBVIOUS
<1>2. \A c, d : DatumEdges({}, {}, c, d) = {} /\ DatumTokens(m, mk, src, 0, c, d) = {}
  BY <1>1 DEF DatumEdges, DatumTokens
<1> QED BY <1>1, <1>2 DEF EdgesUpTo, EdgesKnown, ObjectEdges, DataEdges

\* Before the second pass no inverse is known, and none was said.
LEMMA NoInversesYet ==
  ASSUME NEW m, NEW src, NEW n, NEW inv, DOMAIN inv = {}, \A i \in 1..n : ~InverseToken(src[i])
  PROVE  InversesUpTo(m, src, n, inv)
BY DEF InversesUpTo, InversesKnown, InversesExact, Paired

-------------------------------------------------------------------------------
(* The passes, one by one *)

MaskInv == MaskExact(pMask, mask.predicates) /\ MaskExact(dMask, mask.data)

\* What the steps below have in common.
LEMMA Common ==
  ASSUME Inv
  PROVE  /\ IndexInv /\ TypesBeside /\ MakeTypes /\ MapInv(labels) /\ DataOK(labels, data)
         /\ TokensOK(source) /\ Len(source) \in Nat
         /\ \A i \in DOMAIN inverses : i \in ID /\ inverses[i] \in ID
<1>1. IndexInv /\ TypesBeside /\ MakeTypes BY TypesSplit DEF Inv
<1>2. TokensOK(source) /\ Len(source) \in Nat BY <1>1, TokensTyped DEF MakeTypes, TokensOK
<1> QED BY <1>1, <1>2 DEF IndexInv, Sound, TypesBeside

\* Adding labels leaves the masks exact.
LEMMA MaskGrows ==
  ASSUME MakeTypes, MaskInv, Grows(labels, labels'), UNCHANGED <<pMask, dMask, mask>>
  PROVE  MaskInv'
<1>1. /\ mask.predicates # NoMask => mask.predicates \subseteq Label
      /\ mask.data # NoMask => mask.data \subseteq Label
  BY MasksTyped DEF MakeTypes
<1>2. \A l \in Label : Has(labels, l) =>
         Has(labels', l) /\ labels'.forward[l].literal = labels.forward[l].literal
  BY DEF Grows, Has
<1>3. MaskExact(pMask, mask.predicates)' BY <1>1, <1>2, MaskStays DEF MaskInv, MaskExact
<1>4. MaskExact(dMask, mask.data)' BY <1>1, <1>2, MaskStays DEF MaskInv, MaskExact
<1> QED BY <1>3, <1>4 DEF MaskInv

\* After setMask both masks are exact.
LEMMA SetMaskExact == ASSUME Inv, SetMask PROVE PassesExact'
<1>1. phase = "mask" /\ phase' = "sameAs" BY DEF SetMask
<1>2. labels = EmptyMap /\ pMask = NoMask /\ dMask = NoMask BY <1>1 DEF Inv, Passes
<1>3. mask \in Masks BY Common DEF MakeTypes
<1>4. MaskExact(pMask, mask.predicates)' /\ MaskExact(dMask, mask.data)'
  BY <1>2, <1>3, MasksSet
<1> QED BY <1>1, <1>4 DEF PassesExact

\* They stay so in the first pass.
LEMMA ScanSameAsExact == ASSUME Inv, PassesExact, ScanSameAs PROVE PassesExact'
<1>1. /\ phase = "sameAs" /\ ~AtEnd /\ UNCHANGED <<source, mask, phase, handles>>
  BY DEF ScanSameAs
<1>2. MakeTypes /\ MapInv(labels) BY Common
<1>3. MaskInv BY <1>1 DEF PassesExact, MaskInv
<1>4. MaskInv'
  <2>1. CASE Token.o # Datum /\ Token.p \in SameAs
    <3>1. MarkIdenticalCall(Token.s, Token.o) BY <2>1 DEF ScanSameAs
    <3>2. Token.s \in Label /\ Token.o \in Label BY <1>1, <1>2, <2>1, TokenTyped DEF MakeTypes
    <3>3. \A l \in Label : Has(labels, l) =>
             Has(labels', l) /\ labels'.forward[l].literal = labels.forward[l].literal
      BY <1>2, <3>1, <3>2, Identified
    <3>4. /\ mask.predicates # NoMask => mask.predicates \subseteq Label
          /\ mask.data # NoMask => mask.data \subseteq Label
      BY <1>2, MasksTyped DEF MakeTypes
    <3>5. UNCHANGED <<pMask, dMask, mask>> BY <1>1, <3>1 DEF MarkIdenticalCall
    <3>6. MaskExact(pMask, mask.predicates)' BY <1>3, <3>3, <3>4, <3>5, MaskStays DEF MaskInv, MaskExact
    <3>7. MaskExact(dMask, mask.data)' BY <1>3, <3>3, <3>4, <3>5, MaskStays DEF MaskInv, MaskExact
    <3> QED BY <3>6, <3>7 DEF MaskInv
  <2>2. CASE ~(Token.o # Datum /\ Token.p \in SameAs)
    <3>1. UNCHANGED indexVars BY <2>2 DEF ScanSameAs
    <3> QED BY <1>1, <1>3, <3>1 DEF indexVars, MaskInv, MaskExact
  <2> QED BY <2>1, <2>2
<1> QED BY <1>1, <1>4 DEF PassesExact, MaskInv

\* The second pass records what one more token says about inverses.
LEMMA ScanInverseExact == ASSUME Inv, PassesExact, ScanInverse PROVE PassesExact'
<1> DEFINE n == cursor - 1
           l == Forward(labels', Token.s)
           r == Forward(labels', Token.o)
<1>1. /\ phase = "inverse" /\ ~AtEnd /\ cursor' = cursor + 1
      /\ UNCHANGED <<source, mask, phase, handles>>
  BY DEF ScanInverse
<1>2. /\ MakeTypes /\ MapInv(labels) /\ TokensOK(source) /\ Len(source) \in Nat
      /\ \A i \in DOMAIN inverses : i \in ID /\ inverses[i] \in ID
  BY Common
<1>3. MaskInv /\ InversesUpTo(labels, source, n, inverses)
  BY <1>1 DEF PassesExact, MaskInv, InversesDone
<1>4. /\ n \in Nat /\ n \in 0 .. Len(source) /\ n + 1 =< Len(source) /\ n + 1 = cursor
      /\ cursor' - 1 = n + 1 /\ Token = source[n + 1]
  BY <1>1, <1>2 DEF MakeTypes, AtEnd, Token
<1> HIDE DEF n
<1>5. MaskInv' /\ InversesUpTo(labels', source, n + 1, inverses')
  <2>1. CASE Token.o # Datum /\ Token.p \in InverseOf
    <3>1. MarkInverse(Token.s, Token.o) BY <2>1 DEF ScanInverse
    <3>2. Token.s \in Label /\ Token.o \in Label BY <1>1, <1>2, <2>1, TokenTyped DEF MakeTypes
    <3>3. /\ Grows(labels, labels') /\ Has(labels', Token.s) /\ Has(labels', Token.o)
          /\ l \in ID /\ r \in ID
          /\ Token.s = Token.o => inverses' = inverses
          /\ Token.s # Token.o =>
               /\ DOMAIN inverses' = DOMAIN inverses \union {l, r}
               /\ inverses'[l] = r /\ inverses'[r] = l
               /\ \A c \in DOMAIN inverses \ {l, r} : inverses'[c] = inverses[c]
      BY <1>2, <3>1, <3>2, InverseMarked DEF Forward
    <3>4. MaskInv'
      <4>1. UNCHANGED <<pMask, dMask, mask>> BY <1>1, <3>1 DEF MarkInverse
      <4> QED BY <1>2, <1>3, <3>3, <4>1, MaskGrows
    <3>5. CASE Token.s = Token.o
      <4>1. ~InverseToken(source[n + 1]) BY <1>4, <3>5 DEF InverseToken
      <4>2. InversesUpTo(labels', source, n, inverses)
        BY <1>2, <1>3, <1>4, <3>3, InversesStay
      <4>3. InversesUpTo(labels', source, n + 1, inverses) BY <1>4, <4>1, <4>2, NoMorePair
      <4> QED BY <3>3, <3>4, <3>5, <4>3
    <3>6. CASE Token.s # Token.o
      <4>1. InverseToken(source[n + 1]) BY <1>4, <2>1, <3>6 DEF InverseToken
      <4>2. InversesUpTo(labels', source, n + 1, inverses')
        BY <1>2, <1>3, <1>4, <3>3, <3>6, <4>1, OneMorePair
      <4> QED BY <3>4, <4>2
    <3> QED BY <3>5, <3>6
  <2>2. CASE ~(Token.o # Datum /\ Token.p \in InverseOf)
    <3>1. UNCHANGED indexVars BY <2>2 DEF ScanInverse
    <3>2. ~InverseToken(source[n + 1]) BY <1>4, <2>2 DEF InverseToken
    <3>3. InversesUpTo(labels, source, n + 1, inverses) BY <1>3, <1>4, <3>2, NoMorePair
    <3>4. labels' = labels /\ inverses' = inverses /\ UNCHANGED <<pMask, dMask>> BY <3>1 DEF indexVars
    <3>5. MaskInv' BY <1>1, <1>3, <3>4 DEF MaskInv, MaskExact
    <3> QED BY <3>3, <3>4, <3>5
  <2> QED BY <2>1, <2>2
<1>6. InversesDone(cursor - 1)' BY <1>1, <1>4, <1>5 DEF InversesDone
<1> QED BY <1>1, <1>5, <1>6 DEF PassesExact, MaskInv

\* What the masks answer to the token at hand is what the pathbuilders say.
LEMMA MaskAsked ==
  ASSUME Inv, PassesExact, ScanTriples
  PROVE  /\ Admits(pMask, Token.p) <=> Admitted(mask.predicates, Token)
         /\ Admits(dMask, Token.p) <=> Admitted(mask.data, Token)
<1>1. phase = "triples" /\ ~AtEnd BY DEF ScanTriples
<1>2. MakeTypes /\ MapInv(labels) /\ MaskInv BY <1>1, Common DEF PassesExact, MaskInv
<1>3. Token.p \in Label BY <1>1, <1>2, TokenTyped DEF MakeTypes
<1>4. /\ mask.predicates # NoMask => mask.predicates \subseteq Label
      /\ mask.data # NoMask => mask.data \subseteq Label
  BY <1>2, MasksTyped DEF MakeTypes
<1>5. Admits(pMask, Token.p) <=> (mask.predicates # NoMask => Token.p \in mask.predicates)
  BY <1>2, <1>3, <1>4, MaskAdmits DEF MaskInv
<1>6. Admits(dMask, Token.p) <=> (mask.data # NoMask => Token.p \in mask.data)
  BY <1>2, <1>3, <1>4, MaskAdmits DEF MaskInv
<1> QED BY <1>5, <1>6 DEF Admitted

\* The third pass stores what one more token says, unless it is masked out.
LEMMA ScanTriplesExact == ASSUME Inv, PassesExact, ScanTriples PROVE PassesExact'
<1> DEFINE n == cursor - 1
           edges == DOMAIN psoIndex
<1>1. /\ phase = "triples" /\ ~AtEnd /\ cursor' = cursor + 1
      /\ UNCHANGED <<source, mask, phase, handles>>
  BY DEF ScanTriples
<1>2. /\ IndexInv /\ MakeTypes /\ MapInv(labels) /\ TokensOK(source) /\ Len(source) \in Nat
      /\ \A i \in DOMAIN inverses : i \in ID /\ inverses[i] \in ID
      /\ DataOK(labels, data)
  BY Common
<1>3. /\ MaskInv /\ InversesUpTo(labels, source, Len(source), inverses)
      /\ EdgesUpTo(labels, mask, source, n, inverses, edges, data)
  BY <1>1 DEF PassesExact, MaskInv, InversesDone, EdgesDone
<1>4. /\ n \in Nat /\ n \in 0 .. Len(source) /\ n + 1 =< Len(source) /\ n + 1 = cursor
      /\ cursor' - 1 = n + 1 /\ Token = source[n + 1] /\ Len(source) \in 0 .. Len(source)
  BY <1>1, <1>2 DEF MakeTypes, AtEnd, Token
<1>5. /\ Token.s \in Label /\ Token.p \in Label /\ Token.g \in Source
      /\ (Token.o # Datum => Token.o \in Label)
  BY <1>1, <1>2, TokenTyped DEF MakeTypes
<1>7. /\ Admits(pMask, Token.p) <=> Admitted(mask.predicates, Token)
      /\ Admits(dMask, Token.p) <=> Admitted(mask.data, Token)
  BY MaskAsked
<1> HIDE DEF n
<1>8. /\ Grows(labels, labels') /\ UNCHANGED <<inverses, pMask, dMask>>
      /\ EdgesUpTo(labels', mask, source, n + 1, inverses, edges', data')
  <2>1. CASE Token.o = Datum /\ MaskData(Token.p)
    <3>1. UNCHANGED <<labels, data, inverses, psoIndex, pMask, dMask>> BY <2>1 DEF MaskData
    <3>2. ~KeptObject(mask, source[n + 1]) /\ ~KeptDatum(mask, source[n + 1])
      BY <1>4, <1>7, <2>1 DEF MaskData, KeptObject, KeptDatum
    <3>3. EdgesUpTo(labels, mask, source, n + 1, inverses, edges, data)
      BY <1>3, <1>4, <3>2, TokenMasked
    <3> QED BY <1>2, <3>1, <3>3, GrowsNot
  <2>2. CASE Token.o # Datum /\ MaskTriple(Token.p)
    <3>1. UNCHANGED <<labels, data, inverses, psoIndex, pMask, dMask>> BY <2>2 DEF MaskTriple
    <3>2. ~KeptObject(mask, source[n + 1]) /\ ~KeptDatum(mask, source[n + 1])
      BY <1>4, <1>7, <2>2 DEF MaskTriple, KeptObject, KeptDatum
    <3>3. EdgesUpTo(labels, mask, source, n + 1, inverses, edges, data)
      BY <1>3, <1>4, <3>2, TokenMasked
    <3> QED BY <1>2, <3>1, <3>3, GrowsNot
  <2>3. CASE Token.o = Datum /\ AddData(Token.s, Token.p, Token.g)
    <3>1. UNCHANGED <<inverses, pMask, dMask>> BY <2>3 DEF AddData
    <3>2. KeptDatum(mask, source[n + 1]) BY <1>4, <1>7, <2>3 DEF AddData, KeptDatum
    <3>3. /\ IndexInv' /\ Grows(labels, labels') /\ Has(labels', Token.s) /\ Has(labels', Token.p)
          /\ \E d \in ID : /\ d > labels.id /\ d =< labels'.id /\ labels'.reverse[d] = NoLabel
                           /\ data' = data \union {d}
                           /\ DOMAIN psoIndex' = DOMAIN psoIndex \union
                                {<<Forward(labels', Token.p), Forward(labels', Token.s), d>>}
      BY <1>2, <1>5, <2>3, AddDataSound DEF Forward
    <3>4. PICK d \in ID : /\ d > labels.id /\ data' = data \union {d}
                          /\ edges' = edges \union
                               {<<Forward(labels', Token.p), Forward(labels', Token.s), d>>}
      BY <3>3
    <3>5. MapInv(labels') BY <3>3 DEF IndexInv, Sound
    <3>6. labels.id \in Nat /\ d \in Nat BY <1>2, MapIDs DEF ID
    <3>7. d \notin data BY <1>2, <3>4, <3>6 DEF DataOK
    <3>8. \A k \in edges : k[3] # d
      <4>1. \A k \in edges : k \in ID \X ID \X ID /\ k[3] =< labels.id BY <1>2, EdgeIDs
      <4>2. ~(d =< labels.id) BY <3>4, <3>6
      <4> QED BY <4>1, <4>2
    <3>9. IsFiniteSet(edges) BY <1>2 DEF IndexInv, Sound, Filed, Indexes
    <3> DEFINE e == <<Forward(labels', source[n + 1].p), Forward(labels', source[n + 1].s), d>>
    <3> HIDE DEF edges
    <3>10. Has(labels', source[n + 1].s) /\ Has(labels', source[n + 1].p) BY <1>4, <3>3
    <3>11. EdgesUpTo(labels', mask, source, n + 1, inverses, edges \union {e}, data \union {d})
      BY <1>2, <1>3, <1>4, <3>2, <3>3, <3>5, <3>7, <3>8, <3>9, <3>10, DatumStored
    <3>12. edges' = edges \union {e} /\ data' = data \union {d} BY <1>4, <3>4
    <3> QED BY <3>1, <3>3, <3>11, <3>12
  <2>4. CASE Token.o # Datum /\ AddTriple(Token.s, Token.p, Token.o, Token.g)
    <3>1. UNCHANGED <<data, inverses, pMask, dMask>> BY <2>4 DEF AddTriple
    <3>2. KeptObject(mask, source[n + 1]) BY <1>4, <1>7, <2>4 DEF AddTriple, KeptObject
    <3>3. /\ IndexInv'
          /\ Grows(labels, labels') /\ Has(labels', Token.s) /\ Has(labels', Token.p)
          /\ Has(labels', Token.o)
          /\ edges' = edges \union EdgesOf(labels', inverses, Token)
      <4>1. /\ IndexInv'
            /\ Grows(labels, labels') /\ Has(labels', Token.s) /\ Has(labels', Token.p)
            /\ Has(labels', Token.o)
            /\ LET c == labels'.forward[Token.p].canonical
                   a == labels'.forward[Token.s].canonical
                   b == labels'.forward[Token.o].canonical
               IN  DOMAIN psoIndex' = DOMAIN psoIndex \union {<<c, a, b>>}
                     \union (IF c \in DOMAIN inverses THEN {<<inverses[c], b, a>>} ELSE {})
        BY <1>2, <1>5, <2>4, AddTripleSound
      <4> QED BY <4>1 DEF EdgesOf, Forward
    <3>4. MapInv(labels') /\ DataOK(labels', data) BY <3>1, <3>3 DEF IndexInv, Sound
    <3> HIDE DEF edges
    <3>5. EdgesUpTo(labels', mask, source, n + 1, inverses, edges', data)
      BY <1>2, <1>3, <1>4, <3>2, <3>3, <3>4, ObjectStored
    <3> QED BY <3>1, <3>3, <3>5
  <2> QED BY <2>1, <2>2, <2>3, <2>4 DEF ScanTriples
<1>9. MaskInv' BY <1>1, <1>2, <1>3, <1>8, MaskGrows
<1>10. InversesUpTo(labels', source, Len(source), inverses)
  BY <1>2, <1>3, <1>4, <1>8, InversesStay
<1>11. InversesDone(Len(source))' BY <1>1, <1>8, <1>10 DEF InversesDone
<1>12. EdgesDone(cursor - 1)' BY <1>1, <1>4, <1>8 DEF EdgesDone
<1> QED BY <1>1, <1>9, <1>11, <1>12 DEF PassesExact, MaskInv

\* At the end of a pass the cursor is behind the last token.
LEMMA EndPassExact == ASSUME Inv, PassesExact, EndPass PROVE PassesExact'
<1>1. /\ phase \in {"sameAs", "inverse", "triples"} /\ phase' = AfterPass(phase) /\ cursor' = 1
      /\ AtEnd /\ UNCHANGED <<indexVars, source, mask, handles>>
  BY DEF EndPass, Rewind
<1>2. /\ IndexInv /\ MakeTypes /\ Len(source) \in Nat
  BY Common
<1>3. cursor - 1 = Len(source) /\ cursor' - 1 = 0 BY <1>1, <1>2 DEF MakeTypes, AtEnd
<1>4. UNCHANGED <<labels, data, inverses, psoIndex, pMask, dMask>> BY <1>1 DEF indexVars
<1>5. MaskInv' BY <1>1, <1>4 DEF PassesExact, MaskInv, MaskExact
<1>6. phase \in {"sameAs", "inverse"} => EdgesDone(0)'
  <2> HAVE phase \in {"sameAs", "inverse"}
  <2>1. DOMAIN triples = {} /\ data = {} BY DEF Inv, Passes, StillEmpty
  <2>2. DOMAIN psoIndex = {} BY <1>2, <2>1 DEF IndexInv, Sound, Filed, Best, Indexes
  <2> QED BY <1>4, <2>1, <2>2, NoEdgesYet DEF EdgesDone
<1>7. CASE phase = "sameAs"
  <2>1. DOMAIN inverses = {} BY <1>7 DEF Inv, Passes
  <2>2. CASE InverseOf # {}
    <3>1. phase' = "inverse" BY <1>1, <1>7, <2>2 DEF AfterPass
    <3>2. \A i \in 1..0 : ~InverseToken(source[i]) OBVIOUS
    <3>3. InversesUpTo(labels, source, 0, inverses) BY <2>1, <3>2, NoInversesYet
    <3>4. InversesDone(cursor - 1)' BY <1>1, <1>3, <1>4, <3>3 DEF InversesDone
    <3> QED BY <1>5, <3>1, <3>4 DEF PassesExact, MaskInv
  <2>3. CASE InverseOf = {}
    <3>1. phase' = "triples" BY <1>1, <1>7, <2>3 DEF AfterPass
    <3>2. \A i \in 1..Len(source) : ~InverseToken(source[i]) BY <2>3 DEF InverseToken
    <3>3. InversesUpTo(labels, source, Len(source), inverses) BY <2>1, <3>2, NoInversesYet
    <3>4. InversesDone(Len(source))' BY <1>1, <1>4, <3>3 DEF InversesDone
    <3>5. EdgesDone(cursor - 1)' BY <1>3, <1>6, <1>7 DEF EdgesDone
    <3> QED BY <1>5, <3>1, <3>4, <3>5 DEF PassesExact, MaskInv
  <2> QED BY <2>2, <2>3
<1>8. CASE phase = "inverse"
  <2>1. phase' = "triples" BY <1>1, <1>8 DEF AfterPass
  <2>2. InversesUpTo(labels, source, Len(source), inverses)
    BY <1>3, <1>8 DEF PassesExact, InversesDone
  <2>3. InversesDone(Len(source))' BY <1>1, <1>4, <2>2 DEF InversesDone
  <2>4. EdgesDone(cursor - 1)' BY <1>3, <1>6, <1>8 DEF EdgesDone
  <2> QED BY <1>5, <2>1, <2>3, <2>4 DEF PassesExact, MaskInv
<1>9. CASE phase = "triples"
  <2>1. phase' = "finalize" BY <1>1, <1>9 DEF AfterPass
  <2>2. InversesDone(Len(source)) /\ EdgesDone(Len(source)) BY <1>3, <1>9 DEF PassesExact
  <2>3. InversesDone(Len(source))' /\ EdgesDone(Len(source))'
    BY <1>1, <1>4, <2>2 DEF InversesDone, EdgesDone
  <2> QED BY <2>1, <2>3 DEF PassesExact
<1> QED BY <1>1, <1>7, <1>8, <1>9

\* The steps after the passes change nothing of it.
LEMMA OtherExact ==
  ASSUME Inv, PassesExact, FinalizeStep \/ Fail \/ CloseIndex \/ Ended \/ UNCHANGED vars
  PROVE  PassesExact'
<1>1. UNCHANGED <<labels, data, inverses, psoIndex, pMask, dMask, source, mask, cursor>>
  BY DEF FinalizeStep, FinalizeIndex, Fail, CloseIndex, Ended, vars, indexVars, makeVars
<1>2. \/ phase' = "done" /\ phase = "finalize"
      \/ phase' \in {"failed", "closed"}
      \/ phase' = phase
  BY DEF FinalizeStep, Fail, CloseIndex, Ended, vars, makeVars
<1>4. CASE phase' = "done" /\ phase = "finalize"
  <2>1. InversesDone(Len(source)) /\ EdgesDone(Len(source)) BY <1>4 DEF PassesExact
  <2>2. InversesDone(Len(source))' /\ EdgesDone(Len(source))'
    BY <1>1, <2>1 DEF InversesDone, EdgesDone
  <2> QED BY <1>4, <2>2 DEF PassesExact
<1>5. CASE phase' \in {"failed", "closed"} BY <1>5 DEF PassesExact
<1>6. CASE phase' = phase
  BY <1>1, <1>6 DEF PassesExact, MaskExact, InversesDone, EdgesDone
<1> QED BY <1>2, <1>4, <1>5, <1>6

\* At any point of the three passes masks, inverses, edges and data are what the
\* tokens read so far state (indexSameAs, indexInverseOf, indexData).
THEOREM PassesKeepTrack == Spec => [](Inv /\ PassesExact)
<1>1. Init => Inv /\ PassesExact
  <2>1. Init => phase = "mask" BY DEF Init
  <2>2. phase = "mask" => PassesExact BY DEF PassesExact
  <2> QED BY <2>1, <2>2, InitInv
<1>2. Inv /\ PassesExact /\ [Next]_vars => Inv' /\ PassesExact'
  <2> SUFFICES ASSUME Inv, PassesExact, [Next]_vars PROVE PassesExact' BY NextInv
  <2> QED BY SetMaskExact, ScanSameAsExact, ScanInverseExact, ScanTriplesExact, EndPassExact, OtherExact
          DEF Next
<1> QED BY <1>1, <1>2, PTL DEF Spec

-------------------------------------------------------------------------------
(* The tokens that are masked out *)

\* The first n tokens that a mask keeps out, and their counters.
MaskedObjects(n) == {i \in 1..n : source[i].o # Datum /\ ~Admitted(mask.predicates, source[i])}
MaskedDatums(n) == {i \in 1..n : source[i].o = Datum /\ ~Admitted(mask.data, source[i])}
MaskedUpTo(n) == /\ stats["maskedPred"] = Cardinality(MaskedObjects(n))
                 /\ stats["maskedData"] = Cardinality(MaskedDatums(n))

\* Only the third pass counts them.
MaskedCounted ==
    /\ phase \in {"mask", "sameAs", "inverse"} => MaskedUpTo(0)
    /\ phase = "triples" => MaskedUpTo(cursor - 1)
    /\ phase \in {"finalize", "done"} => MaskedUpTo(Len(source))

SameMasked(st, su) == /\ st \in [StatNames -> Nat]
                      /\ st["maskedPred"] = su["maskedPred"] /\ st["maskedData"] = su["maskedData"]

\* insert does not count them.
LEMMA InsertCountsEdges ==
  ASSUME NEW x, x.stats \in [StatNames -> Nat], NEW ts, NEW s, NEW p, NEW o, NEW l,
         NEW kind \in {"direct", "inverse", "datum"}
  PROVE  SameMasked(Insert(x, ts, s, p, o, l, kind).stats, x.stats)
<1> DEFINE y == Insert(x, ts, s, p, o, l, kind)
           clash(index, j) == IF j \in DOMAIN index /\ index[j] # l THEN 1 ELSE 0
           c == x.stats["conflict"] + clash(x.pso, <<p, s, o>>) + clash(x.pos, <<p, o, s>>)
           counted == [x.stats EXCEPT !["conflict"] = c]
<1>1. c \in Nat BY DEF StatNames
<1>2. y.stats = counted \/ y.stats = Increase(counted, kind) BY DEF Insert
<1> HIDE DEF c, y
<1>3. SameMasked(counted, x.stats) BY <1>1 DEF SameMasked, StatNames
<1> HIDE DEF counted
<1>4. SameMasked(Increase(counted, kind), x.stats) BY <1>3 DEF SameMasked, Increase, StatNames
<1> QED BY <1>2, <1>3, <1>4 DEF y

\* Nor do AddTriple and AddData when they store something.
LEMMA StoringCountsEdges ==
  ASSUME stats \in [StatNames -> Nat], NEW s, NEW p, NEW o, NEW g,
         AddTriple(s, p, o, g) \/ AddData(s, p, g)
  PROVE  SameMasked(stats', stats)
<1>1. Indexes.stats = stats BY DEF Indexes
<1> DEFINE Kept(x) == SameMasked(x.stats, stats)
<1>2. ASSUME NEW ts, NEW u, NEW v, NEW w, NEW l, NEW kind \in {"direct", "inverse", "datum"}
      PROVE  Kept(Insert(Indexes, ts, u, v, w, l, kind))
  BY <1>1, InsertCountsEdges
<1>3. ASSUME NEW x, Kept(x), NEW ts, NEW u, NEW v, NEW w, NEW l
      PROVE  Kept(Insert(x, ts, u, v, w, l, "inverse"))
  BY <1>3, InsertCountsEdges DEF SameMasked
<1>4. ASSUME NEW x, Kept(x), SetIndexes(x) PROVE SameMasked(stats', stats)
  BY <1>4 DEF SetIndexes
<1> HIDE DEF Kept
<1>5. CASE AddTriple(s, p, o, g)
  <2> DEFINE a == labels'.forward[s]
             c == labels'.forward[p]
             b == labels'.forward[o]
             id == AfterSource(g) + 1
             direct == Put(triples, id, [role |-> Regular, source |-> SourceID(g), items |-> <<a, c, b>>])
             first == Insert(Indexes, direct, a.canonical, c.canonical, b.canonical, id, "direct")
             i == inverses[c.canonical]
             both == Put(direct, id + 1, [role |-> InverseRole, source |-> SourceID(g),
                                          items |-> InverseItems(a, i, c, b)])
             second == Insert(first, both, b.canonical, i, a.canonical, id + 1, "inverse")
  <2>1. SetIndexes(first) \/ SetIndexes(second) BY <1>5 DEF AddTriple
  <2>2. Kept(first) BY <1>2
  <2> HIDE DEF first
  <2>3. Kept(second) BY <1>3, <2>2
  <2> HIDE DEF second
  <2> QED BY <1>4, <2>1, <2>2, <2>3
<1>6. CASE AddData(s, p, g)
  <2> DEFINE withDatum == NextID(AddNew(labels, p))
             d == withDatum.id
             m == AddNew(withDatum, s)
             a == m.forward[s]
             c == m.forward[p]
             id == AfterSource(g) + 1
             ts == Put(triples, id, [role |-> Data, source |-> SourceID(g),
                                     items |-> <<a, c, [canonical |-> d, literal |-> d]>>])
             x == Insert(Indexes, ts, a.canonical, c.canonical, d, id, "datum")
  <2>1. SetIndexes(x) BY <1>6 DEF AddData
  <2>2. Kept(x) BY <1>2
  <2> HIDE DEF x
  <2> QED BY <1>4, <2>1, <2>2
<1> QED BY <1>5, <1>6

\* A step that leaves source, mask and counters alone leaves the count right.
LEMMA SameCount ==
  ASSUME NEW n, MaskedUpTo(n), UNCHANGED <<source, mask, stats>>
  PROVE  MaskedUpTo(n)'
BY DEF MaskedUpTo, MaskedObjects, MaskedDatums

\* The third pass counts the token it is at when a mask keeps it out.
LEMMA ScanTriplesCounts ==
  ASSUME Inv, PassesExact, MaskedCounted, ScanTriples
  PROVE  MaskedCounted'
<1> DEFINE n == cursor - 1
           O == MaskedObjects(n)
           D == MaskedDatums(n)
<1>1. /\ phase = "triples" /\ ~AtEnd /\ cursor' = cursor + 1
      /\ UNCHANGED <<source, mask, phase, handles>>
  BY DEF ScanTriples
<1>2. MakeTypes /\ Len(source) \in Nat /\ stats \in [StatNames -> Nat]
  <2>1. IndexInv BY Common
  <2> QED BY <2>1, Common DEF IndexInv, Sound, Filed, Indexes
<1>3. n \in Nat /\ n + 1 = cursor /\ cursor' - 1 = n + 1 /\ Token = source[n + 1]
  BY <1>1, <1>2 DEF MakeTypes, Token
<1>4. stats["maskedPred"] = Cardinality(O) /\ stats["maskedData"] = Cardinality(D)
  BY <1>1 DEF MaskedCounted, MaskedUpTo
<1>5. /\ Admits(pMask, Token.p) <=> Admitted(mask.predicates, Token)
      /\ Admits(dMask, Token.p) <=> Admitted(mask.data, Token)
  BY MaskAsked
<1> DEFINE outO == Token.o # Datum /\ ~Admitted(mask.predicates, Token)
           outD == Token.o = Datum /\ ~Admitted(mask.data, Token)
<1> HIDE DEF n
<1>6. /\ MaskedObjects(n + 1) = O \union (IF outO THEN {n + 1} ELSE {})
      /\ MaskedDatums(n + 1) = D \union (IF outD THEN {n + 1} ELSE {})
  BY <1>3, OneMore DEF MaskedObjects, MaskedDatums
<1>7. /\ IsFiniteSet(O) /\ n + 1 \notin O /\ IsFiniteSet(D) /\ n + 1 \notin D
  <2>1. O \subseteq 1..n /\ D \subseteq 1..n BY DEF MaskedObjects, MaskedDatums
  <2>2. IsFiniteSet(1..n) /\ n + 1 \notin 1..n BY <1>3, FS_Interval
  <2> QED BY <2>1, <2>2, FS_Subset
<1>8. /\ Cardinality(O \union {n + 1}) = Cardinality(O) + 1
      /\ Cardinality(D \union {n + 1}) = Cardinality(D) + 1
  BY <1>7, FS_AddElement
<1>9. /\ stats'["maskedPred"] = IF outO THEN stats["maskedPred"] + 1 ELSE stats["maskedPred"]
      /\ stats'["maskedData"] = IF outD THEN stats["maskedData"] + 1 ELSE stats["maskedData"]
  <2>1. CASE Token.o = Datum /\ MaskData(Token.p)
    <3>1. stats' = Increase(stats, "maskedData") /\ outD /\ ~outO BY <1>5, <2>1 DEF MaskData
    <3> QED BY <1>2, <3>1 DEF Increase, StatNames
  <2>2. CASE Token.o # Datum /\ MaskTriple(Token.p)
    <3>1. stats' = Increase(stats, "maskedPred") /\ outO /\ ~outD BY <1>5, <2>2 DEF MaskTriple
    <3> QED BY <1>2, <3>1 DEF Increase, StatNames
  <2>3. CASE Token.o = Datum /\ AddData(Token.s, Token.p, Token.g)
    <3>1. ~outD /\ ~outO BY <1>5, <2>3 DEF AddData
    <3>2. SameMasked(stats', stats) BY <1>2, <2>3, StoringCountsEdges
    <3> QED BY <3>1, <3>2 DEF SameMasked
  <2>4. CASE Token.o # Datum /\ AddTriple(Token.s, Token.p, Token.o, Token.g)
    <3>1. ~outD /\ ~outO BY <1>5, <2>4 DEF AddTriple
    <3>2. SameMasked(stats', stats) BY <1>2, <2>4, StoringCountsEdges
    <3> QED BY <3>1, <3>2 DEF SameMasked
  <2> QED BY <2>1, <2>2, <2>3, <2>4 DEF ScanTriples
<1> HIDE DEF outO, outD, O, D
<1>10. /\ stats'["maskedPred"] = Cardinality(MaskedObjects(n + 1))
       /\ stats'["maskedData"] = Cardinality(MaskedDatums(n + 1))
  BY <1>4, <1>6, <1>8, <1>9
<1>11. MaskedUpTo(cursor - 1)'
  BY <1>1, <1>3, <1>10 DEF MaskedUpTo, MaskedObjects, MaskedDatums
<1> QED BY <1>1, <1>11 DEF MaskedCounted

\* The other steps count nothing.
LEMMA OthersCountNothing ==
  ASSUME Inv, MaskedCounted,
         \/ SetMask \/ ScanSameAs \/ ScanInverse \/ EndPass
         \/ FinalizeStep \/ Fail \/ CloseIndex \/ Ended \/ UNCHANGED vars
  PROVE  MaskedCounted'
<1>1. UNCHANGED <<source, mask, stats>>
  BY DEF SetMask, ScanSameAs, MarkIdenticalCall, ScanInverse, MarkInverse, EndPass, FinalizeStep,
         FinalizeIndex, Fail, CloseIndex, Ended, vars, indexVars, makeVars
<1>2. CASE EndPass
  <2>1. /\ phase \in {"sameAs", "inverse", "triples"} /\ phase' = AfterPass(phase) /\ cursor' = 1 /\ AtEnd
    BY <1>2 DEF EndPass, Rewind
  <2>2. cursor - 1 = Len(source) /\ cursor' - 1 = 0 BY <2>1, Common DEF MakeTypes, AtEnd
  <2>3. CASE phase = "triples"
    <3>1. phase' = "finalize" BY <2>1, <2>3 DEF AfterPass
    <3>2. MaskedUpTo(Len(source)) BY <2>2, <2>3 DEF MaskedCounted
    <3> QED BY <1>1, <3>1, <3>2, SameCount DEF MaskedCounted
  <2>4. CASE phase \in {"sameAs", "inverse"}
    <3>1. phase' \in {"inverse", "triples"} BY <2>1, <2>4 DEF AfterPass
    <3>2. MaskedUpTo(0) BY <2>4 DEF MaskedCounted
    <3>3. MaskedUpTo(0)' BY <1>1, <3>2, SameCount
    <3>4. MaskedUpTo(cursor - 1)' BY <2>2, <3>3 DEF MaskedUpTo, MaskedObjects, MaskedDatums
    <3> QED BY <3>1, <3>3, <3>4 DEF MaskedCounted
  <2> QED BY <2>1, <2>3, <2>4
<1>3. CASE SetMask \/ ScanSameAs \/ ScanInverse
  <2>1. phase \in {"mask", "sameAs", "inverse"} /\ phase' \in {"sameAs", "inverse"}
    BY <1>3 DEF SetMask, ScanSameAs, ScanInverse
  <2>2. MaskedUpTo(0) BY <2>1 DEF MaskedCounted
  <2> QED BY <1>1, <2>1, <2>2, SameCount DEF MaskedCounted
<1>4. CASE FinalizeStep \/ Fail \/ CloseIndex
  <2>1. (phase = "finalize" /\ phase' = "done") \/ phase' \in {"failed", "closed"}
    BY <1>4 DEF FinalizeStep, Fail, CloseIndex
  <2> QED BY <1>1, <2>1, SameCount DEF MaskedCounted
<1>5. CASE Ended \/ UNCHANGED vars
  BY <1>5 DEF Ended, vars, indexVars, makeVars, MaskedCounted, MaskedUpTo, MaskedObjects, MaskedDatums
<1> QED BY <1>2, <1>3, <1>4, <1>5

\* At any point of the third pass the two counters of masked triples are what
\* the tokens read so far say (index.go:272 and 385).
THEOREM MasksKeepTrack == Spec => []MaskedCounted
<1>1. Init => MaskedCounted
  <2> SUFFICES ASSUME Init PROVE MaskedCounted OBVIOUS
  <2>1. phase = "mask" /\ stats["maskedPred"] = 0 /\ stats["maskedData"] = 0
    BY DEF Init, IndexInit, StatNames
  <2>2. MaskedObjects(0) = {} /\ MaskedDatums(0) = {} BY DEF MaskedObjects, MaskedDatums
  <2> QED BY <2>1, <2>2, FS_EmptySet DEF MaskedCounted, MaskedUpTo
<1>2. Inv /\ PassesExact /\ MaskedCounted /\ [Next]_vars => MaskedCounted'
  BY ScanTriplesCounts, OthersCountNothing DEF Next
<1> QED BY <1>1, <1>2, PassesKeepTrack, PTL DEF Spec

-------------------------------------------------------------------------------
(* The finished index *)

\* The partners of EdgesAreExpected are the pairs of all the tokens.
LEMMA PartnersArePaired ==
  ASSUME Inv, NEW c \in ID
  PROVE  /\ \A d : d \in Partners(c) <=> Paired(labels, source, Len(source), c, d)
         /\ IsFiniteSet(Partners(c))
<1> DEFINE U == {u \in ObjectTokens : u.p \in InverseOf /\ u.s # u.o}
<1>1. DOMAIN source = 1 .. Len(source) /\ MakeTypes BY Common, TokensTyped DEF MakeTypes
<1>2. \A u : u \in U <=> \E i \in 1 .. Len(source) : u = source[i] /\ InverseToken(source[i])
  BY <1>1 DEF ObjectTokens, Tokens, InverseToken
<1>3. \A d : d \in Partners(c) <=>
              \E u \in U : (C(u.s) = c /\ C(u.o) = d) \/ (C(u.o) = c /\ C(u.s) = d)
  BY DEF Partners
<1> HIDE DEF U
<1>4. \A d : d \in Partners(c) <=> Paired(labels, source, Len(source), c, d)
  BY <1>2, <1>3 DEF Paired, C
<1>5. Partners(c) \subseteq 0 .. MaxID
  <2>1. labels \in MapValue /\ MaxID \in Nat BY Common, MapIDs
  <2>2. \A l \in Label : C(l) \in 0 .. MaxID
    BY <2>1 DEF C, Forward, MapValue, TripleID, ID, NoID
  <2>3. TokensOK(source) BY Common
  <2>4. \A u \in U : u.s \in Label /\ u.o \in Label BY <1>2, <2>3 DEF TokensOK, InverseToken
  <2> QED BY <1>3, <2>2, <2>4
<1>6. IsFiniteSet(0 .. MaxID) BY LabelAssumption, FS_Interval
<1> QED BY <1>4, <1>5, <1>6, FS_Subset

\* The assumption of index.go:493, without counting.
LEMMA OnePartnerEach ==
  ASSUME Inv, AtMostOneInverse
  PROVE  OnePartner(labels, source, Len(source))
<1> SUFFICES ASSUME NEW c \in ID, NEW d, NEW e, d \in Partners(c), e \in Partners(c) PROVE d = e
  BY PartnersArePaired DEF OnePartner
<1>1. IsFiniteSet(Partners(c)) /\ Cardinality(Partners(c)) =< 1
  BY PartnersArePaired DEF AtMostOneInverse
<1>2. Cardinality(Partners(c)) \in Nat BY <1>1, FS_CardinalityType
<1>3. Cardinality(Partners(c)) # 0 BY <1>1, FS_EmptySet
<1>4. Cardinality(Partners(c)) = 1 BY <1>1, <1>2, <1>3
<1>5. PICK x : Partners(c) = {x} BY <1>1, <1>4, FS_Singleton
<1> QED BY <1>5

\* What the passes kept track of is what the input says.
LEMMA DoneIsExact ==
  ASSUME Inv, PassesExact, MaskedCounted, phase = "done"
  PROVE  ObjectEdgesExact /\ DataExact /\ StatsMatchEdges /\ MaskedExact
<1> DEFINE N == Len(source)
           edges == DOMAIN psoIndex
<1>1. /\ IndexInv /\ MakeTypes /\ MapInv(labels) /\ TokensOK(source) /\ N \in Nat
      /\ DOMAIN source = 1 .. N
      /\ \A i \in DOMAIN inverses : i \in ID /\ inverses[i] \in ID
  <2>1. MakeTypes BY Common
  <2> QED BY <2>1, Common, TokensTyped DEF MakeTypes
<1>2. /\ InversesUpTo(labels, source, N, inverses)
      /\ EdgesUpTo(labels, mask, source, N, inverses, edges, data)
  BY DEF PassesExact, InversesDone, EdgesDone
<1>3. edges \subseteq ID \X ID \X ID
      /\ Cardinality(edges) = stats["direct"] + stats["inverse"] + stats["datum"]
      /\ stats["conflict"] + 2 * Cardinality(edges) = 2 * Cardinality(DOMAIN triples)
      /\ IsFiniteSet(edges) /\ IsFiniteSet(DOMAIN triples) /\ stats["conflict"] \in Nat
  BY <1>1 DEF IndexInv, Sound, Filed, Indexes, StatNames
<1>4. ObjectEdgesExact
  <2> SUFFICES ASSUME AtMostOneInverse
               PROVE  {k \in edges : k[3] \notin data} =
                        UNION {{<<C(t.p), C(t.s), C(t.o)>>} \union {<<i, C(t.o), C(t.s)>> : i \in Partners(C(t.p))} :
                               t \in {u \in ObjectTokens : Admitted(mask.predicates, u)}}
    BY DEF ObjectEdgesExact
  <2> DEFINE stated(t) == {<<C(t.p), C(t.s), C(t.o)>>} \union {<<i, C(t.o), C(t.s)>> : i \in Partners(C(t.p))}
  <2>1. OnePartner(labels, source, N) BY OnePartnerEach
  <2>2. \A c \in ID : Partners(c) = IF c \in DOMAIN inverses THEN {inverses[c]} ELSE {}
    <3> SUFFICES ASSUME NEW c \in ID
                 PROVE  Partners(c) = IF c \in DOMAIN inverses THEN {inverses[c]} ELSE {}
      OBVIOUS
    <3>1. /\ (c \in DOMAIN inverses) <=> \E d \in ID : Paired(labels, source, N, c, d)
          /\ c \in DOMAIN inverses => Paired(labels, source, N, c, inverses[c])
      BY <1>2, <2>1 DEF InversesUpTo, InversesExact
    <3>2. \A d : d \in Partners(c) <=> Paired(labels, source, N, c, d) BY PartnersArePaired
    <3>3. \A d : Paired(labels, source, N, c, d) => d \in ID
      <4>1. \A i \in 1..N : InverseToken(source[i]) =>
               Forward(labels, source[i].s) \in ID /\ Forward(labels, source[i].o) \in ID
        <5> SUFFICES ASSUME NEW i \in 1..N, InverseToken(source[i])
                     PROVE  Forward(labels, source[i].s) \in ID /\ Forward(labels, source[i].o) \in ID
          OBVIOUS
        <5>1. Has(labels, source[i].s) /\ Has(labels, source[i].o)
          BY <1>2 DEF InversesUpTo, InversesKnown
        <5>2. source[i].s \in Label /\ source[i].o \in Label BY <1>1 DEF TokensOK, InverseToken
        <5> QED BY <1>1, <5>1, <5>2, ClassIsID
      <4> QED BY <4>1 DEF Paired
    <3>4. \A d, e \in ID : Paired(labels, source, N, c, d) /\ Paired(labels, source, N, c, e) => d = e
      BY <2>1 DEF OnePartner
    <3> HIDE DEF N
    <3>5. CASE c \in DOMAIN inverses BY <1>1, <3>1, <3>2, <3>3, <3>4, <3>5
    <3>6. CASE c \notin DOMAIN inverses BY <3>1, <3>2, <3>3, <3>6
    <3> QED BY <3>5, <3>6
  <2>3. ASSUME NEW i \in 1..N, KeptObject(mask, source[i])
        PROVE  /\ stated(source[i]) = EdgesOf(labels, inverses, source[i])
               /\ EdgesOf(labels, inverses, source[i]) \subseteq ID \X ID \X ID
    <3>1. Has(labels, source[i].s) /\ Has(labels, source[i].p) /\ Has(labels, source[i].o)
      BY <1>2, <2>3 DEF EdgesUpTo, EdgesKnown
    <3>2. source[i].s \in Label /\ source[i].p \in Label /\ source[i].o \in Label
      BY <1>1, <2>3 DEF TokensOK, KeptObject
    <3> DEFINE c == Forward(labels, source[i].p)
               a == Forward(labels, source[i].s)
               b == Forward(labels, source[i].o)
    <3>3. c \in ID /\ a \in ID /\ b \in ID BY <1>1, <3>1, <3>2, ClassIsID
    <3>4. C(source[i].p) = c /\ C(source[i].s) = a /\ C(source[i].o) = b BY DEF C
    <3>5. EdgesOf(labels, inverses, source[i]) =
             {<<c, a, b>>} \union (IF c \in DOMAIN inverses THEN {<<inverses[c], b, a>>} ELSE {})
      BY DEF EdgesOf
    <3>6. stated(source[i]) = {<<c, a, b>>} \union {<<j, b, a>> : j \in Partners(c)} BY <3>4
    <3> HIDE DEF a, b, c, stated
    <3>7. Partners(c) = IF c \in DOMAIN inverses THEN {inverses[c]} ELSE {} BY <2>2, <3>3
    <3>8. {<<j, b, a>> : j \in Partners(c)} = IF c \in DOMAIN inverses THEN {<<inverses[c], b, a>>} ELSE {}
      BY <3>7
    <3>9. EdgesOf(labels, inverses, source[i]) \subseteq ID \X ID \X ID BY <1>1, <3>3, <3>5
    <3> QED BY <3>5, <3>6, <3>8, <3>9
  <2>4. \A t : t \in {u \in ObjectTokens : Admitted(mask.predicates, u)} <=>
               \E i \in 1..N : t = source[i] /\ KeptObject(mask, source[i])
    BY <1>1 DEF ObjectTokens, Tokens, KeptObject
  <2>5. \A k : (k \in edges /\ k[3] \notin data) <=>
               \E i \in 1..N : KeptObject(mask, source[i]) /\ k \in EdgesOf(labels, inverses, source[i])
    <3>1. \A k \in ID \X ID \X ID : (k \in edges /\ k[3] \notin data) <=>
               \E i \in 1..N : KeptObject(mask, source[i]) /\ k \in EdgesOf(labels, inverses, source[i])
      BY <1>2 DEF EdgesUpTo, ObjectEdges
    <3> HIDE DEF edges, N, stated
    <3>2. \A k : k \in edges => k \in ID \X ID \X ID BY <1>3
    <3>3. \A k : (\E i \in 1..N : KeptObject(mask, source[i]) /\ k \in EdgesOf(labels, inverses, source[i]))
              => k \in ID \X ID \X ID
      BY <2>3
    <3> QED BY <3>1, <3>2, <3>3
  <2> HIDE DEF edges, N, stated
  <2>6. \A k : (k \in UNION {stated(t) : t \in {u \in ObjectTokens : Admitted(mask.predicates, u)}}) <=>
               \E i \in 1..N : KeptObject(mask, source[i]) /\ k \in EdgesOf(labels, inverses, source[i])
    BY <2>3, <2>4
  <2>7. {k \in edges : k[3] \notin data} = UNION {stated(t) : t \in {u \in ObjectTokens : Admitted(mask.predicates, u)}}
    BY <2>5, <2>6
  <2> QED BY <2>7 DEF stated
<1>5. DataExact
  <2> SUFFICES ASSUME NEW c \in ID, NEW d \in ID
               PROVE  Cardinality({k \in DOMAIN psoIndex : k[1] = c /\ k[2] = d /\ k[3] \in data}) =
                      Cardinality({i \in DOMAIN source : /\ source[i].o = Datum /\ Admitted(mask.data, source[i])
                                                         /\ C(source[i].p) = c /\ C(source[i].s) = d})
    BY DEF DataExact
  <2>1. Cardinality(DatumEdges(edges, data, c, d)) = Cardinality(DatumTokens(labels, mask, source, N, c, d))
    BY <1>2 DEF EdgesUpTo, DataEdges
  <2>2. DatumEdges(edges, data, c, d) = {k \in DOMAIN psoIndex : k[1] = c /\ k[2] = d /\ k[3] \in data}
    BY DEF DatumEdges
  <2>3. DatumTokens(labels, mask, source, N, c, d) =
          {i \in DOMAIN source : /\ source[i].o = Datum /\ Admitted(mask.data, source[i])
                                 /\ C(source[i].p) = c /\ C(source[i].s) = d}
    BY <1>1 DEF DatumTokens, KeptDatum, C
  <2> QED BY <2>1, <2>2, <2>3
<1>6. StatsMatchEdges
  <2> DEFINE e == Cardinality(edges)
             t == Cardinality(DOMAIN triples)
             c == stats["conflict"]
  <2>1. e \in Nat /\ t \in Nat /\ c \in Nat /\ c + 2 * e = 2 * t BY <1>3, FS_CardinalityType
  <2> HIDE DEF e, t, c
  <2>2. c = 2 * (t - e) BY <2>1
  <2> QED BY <1>3, <2>2 DEF StatsMatchEdges, e, t, c
<1>7. MaskedExact
  <2>1. MaskedUpTo(N) BY DEF MaskedCounted
  <2>2. /\ MaskedObjects(N) = {i \in DOMAIN source : /\ source[i].o # Datum
                                                    /\ ~Admitted(mask.predicates, source[i])}
        /\ MaskedDatums(N) = {i \in DOMAIN source : /\ source[i].o = Datum
                                                   /\ ~Admitted(mask.data, source[i])}
    BY <1>1 DEF MaskedObjects, MaskedDatums
  <2> QED BY <2>1, <2>2 DEF MaskedUpTo, MaskedExact
<1> QED BY <1>4, <1>5, <1>6, <1>7

\* The finished index holds the edges and data the masks let through and the
\* inverses of those edges, none missing, none invented, none stale; and all six
\* statistics are right.
THEOREM IndexIsExact == Spec => []EdgesAreExpected
<1>1. Inv /\ PassesExact /\ MaskedCounted => EdgesAreExpected BY DoneIsExact DEF EdgesAreExpected
<1> QED BY <1>1, PassesKeepTrack, MasksKeepTrack, PTL
===============================================================================
