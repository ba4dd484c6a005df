----------------------------- MODULE PathsProofs ------------------------------
(***************************************************************************)
(* What Paths promises for every graph and every path array: it yields     *)
(* described paths, none of them twice, and all of them unless the         *)
(* consumer stops or the index fails.                                      *)
(***************************************************************************)
EXTENDS Paths, TLAPS

-------------------------------------------------------------------------------
(* The invariant *)

\* How many nodes the element has that the body of stage i is called with.
Depth(i) == IF i = 1 THEN 0 ELSE (i + 1) \div 2

\* An element the stages before i may yield: described as far as it goes.
Partial(i, e) ==
    /\ e \in [1..Depth(i) -> Node]
    /\ \A k \in 1..(Depth(i) - 1) : <<e[k], e[k + 1]>> \in edges[array[2 * k]]
    /\ \A k \in 1..Depth(i) : 2 * k - 1 < i => e[k] \in typed[array[2 * k - 1]]

\* The body of stage i is in the middle of its loop.
Open(i) == i < level \/ answer = "more"

\* The path d begins with the element stage i works on.
Through(i, d) == \A k \in 1..Depth(i) : d[k] = at[i][k]

\* The Fetch of stage i has yet to visit the node that leads to d.
Later(i, d) == IsExpand(i) /\ Through(i, d) /\ d[Depth(i) + 1] \in todo[i]

\* The path d is still to come: from a Fetch on the stack, or from the call
\* that is being made.
Pending(d) ==
    \/ \E i \in 1..(level - 1) : Later(i, d)
    \/ level > 0 /\ IF answer = "call" THEN Through(level, d) ELSE Later(level, d)

\* Nothing went wrong yet, and nobody wants to stop.
Live == ~failed /\ stopped = {}

\* The stack of bodies: each works on what the one below it has yielded, and
\* below it the node that led here is not visited again.
Chain ==
    /\ answer # "stop" /\ (level = Consumer => answer = "call")
    /\ \A i \in 1..level : Partial(i, at[i])
    /\ \A i \in 1..level : IsExpand(i) /\ Open(i) => todo[i] \subseteq Objects(i, at[i])
    /\ \A i, j \in 1..level : i < j =>
          /\ Through(i, at[j])
          /\ IsExpand(i) => at[j][Depth(i) + 1] \notin todo[i]

\* The consumer has those described paths that are not still to come.
Handed == {out[i] : i \in DOMAIN out}
Progress == \A d \in Described : d \in Handed <=> ~Pending(d)

\* Once something went wrong the consumer gets no further path: it has left
\* its loop, or the failure is on its way to it.
Over == \/ panicked
        \/ Consumer \in stopped /\ level # Consumer
        \/ stopped = {} /\ level > 0 /\ answer = "call" /\ at[level] = Failure

Bodies == \A i \in 1..level : at[i] = Failure \/ at[i] \in [1..Depth(i) -> Node]
NoDuplicates == \A i, j \in DOMAIN out : out[i] \in Described /\ (out[i] = out[j] => i = j)

InputOK ==
    /\ array \in Arrays
    /\ typed \in [Class -> SUBSET Node]
    /\ edges \in [Predicate -> SUBSET (Node \X Node)]
    /\ want \in Nat

Inv == /\ TypeOK /\ InputOK /\ Bodies /\ NoDuplicates
       /\ stopped = {} \/ Consumer \in stopped
       /\ IF Live THEN Chain /\ Progress ELSE Over

-------------------------------------------------------------------------------
(* Stages and elements *)

\* The array, its stages and the consumer behind them.
LEMMA ArrayFacts ==
  ASSUME array \in Arrays
  PROVE  /\ Len(array) \in Nat /\ Len(array) > 0 /\ DOMAIN array = 1..Len(array)
         /\ Hops \in Nat /\ Consumer \in Nat /\ Consumer > 1
         /\ \A k \in 1..Hops : 2 * k \in Stage /\ array[2 * k] \in Predicate
         /\ \A k \in Nat : 2 * k - 1 \in Stage => array[2 * k - 1] \in Class
         /\ array[1] \in Class
<1>1. array \in Seq(Class \union Predicate) BY PathsAssumption
<1>2. Len(array) \in Nat /\ DOMAIN array = 1..Len(array) BY <1>1
<1>3. Len(array) > 0 /\ \A i \in 1..Len(array) : array[i] \in IF i % 2 = 1 THEN Class ELSE Predicate
  BY <1>2, PathsAssumption
<1>4. Hops \in Nat /\ Consumer \in Nat /\ Consumer > 1 BY <1>2, <1>3 DEF Hops, Consumer
<1>5. \A k \in 1..Hops : 2 * k \in Stage /\ (2 * k) % 2 = 0 BY <1>2 DEF Hops, Stage
<1>6. \A k \in Nat : 2 * k - 1 \in Stage => (2 * k - 1) % 2 = 1 BY <1>2 DEF Stage
<1>7. 1 \in Stage /\ 1 % 2 = 1 BY <1>2, <1>3 DEF Stage
<1> QED BY <1>2, <1>3, <1>4, <1>5, <1>6, <1>7 DEF Stage

\* A stage that expands adds a node, one that restricts does not.
LEMMA DepthFacts ==
  ASSUME array \in Arrays
  PROVE  /\ \A i \in 1..Consumer : Depth(i) \in 0..(Hops + 1)
         /\ Depth(1) = 0 /\ Depth(Consumer) = Hops + 1
         /\ \A i \in Stage : IsExpand(i) => Depth(i + 1) = Depth(i) + 1
         /\ \A i \in Stage : IsExpand(i) /\ i # 1 => 2 * Depth(i) = i /\ Depth(i) > 0
         /\ \A i \in Stage : ~IsExpand(i) =>
               Depth(i + 1) = Depth(i) /\ 2 * Depth(i) - 1 = i /\ Depth(i) > 1
         /\ \A i, j \in 1..Consumer : i < j =>
               Depth(i) =< Depth(j) /\ (IsExpand(i) => Depth(i) < Depth(j))
<1> DEFINE len == Len(array)
<1>1. len \in Nat /\ len > 0 /\ Stage = 1..len /\ Consumer = len + 1 /\ Hops = len \div 2
  BY ArrayFacts DEF Stage, Consumer, Hops
<1> HIDE DEF len
<1>2. /\ \A i \in 1..Consumer : Depth(i) \in 0..(Hops + 1)
      /\ Depth(1) = 0 /\ Depth(Consumer) = Hops + 1
  BY <1>1 DEF Depth
<1>3. /\ \A i \in Stage : IsExpand(i) => Depth(i + 1) = Depth(i) + 1
      /\ \A i \in Stage : IsExpand(i) /\ i # 1 => 2 * Depth(i) = i /\ Depth(i) > 0
  BY <1>1 DEF Depth, IsExpand
<1>4. \A i \in Stage : ~IsExpand(i) =>
         Depth(i + 1) = Depth(i) /\ 2 * Depth(i) - 1 = i /\ Depth(i) > 1
  BY <1>1 DEF Depth, IsExpand
<1>5. \A i, j \in 1..Consumer : i < j =>
         Depth(i) =< Depth(j) /\ (IsExpand(i) => Depth(i) < Depth(j))
  BY <1>1 DEF Depth, IsExpand
<1> QED BY <1>2, <1>3, <1>4, <1>5

\* Described and the elements the consumer may be called with are the same.
LEMMA PartialIsDescribed ==
  ASSUME array \in Arrays
  PROVE  \A d : d \in Described <=> Partial(Consumer, d)
<1>1. Depth(Consumer) = Hops + 1 /\ Hops \in Nat /\ Len(array) \in Nat
      /\ DOMAIN array = 1..Len(array)
  BY ArrayFacts, DepthFacts
<1>2. \A k \in 1..(Hops + 1) : 2 * k - 1 < Consumer <=> 2 * k - 1 \in DOMAIN array
  BY <1>1 DEF Consumer
<1> QED BY <1>1, <1>2 DEF Described, Partial

\* An element is a sequence of nodes, and no failure.
LEMMA ElementFacts ==
  ASSUME NEW n \in Nat, NEW e \in [1..n -> Node]
  PROVE  e \in Seq(Node) /\ Len(e) = n /\ e # Failure
BY PathsAssumption

\* A node more.
LEMMA Longer ==
  ASSUME NEW n \in Nat, NEW e \in [1..n -> Node], NEW x \in Node
  PROVE  /\ Append(e, x) \in [1..(n + 1) -> Node]
         /\ \A k \in 1..n : Append(e, x)[k] = e[k]
         /\ Append(e, x)[n + 1] = x
<1>1. e \in Seq(Node) /\ Len(e) = n BY ElementFacts
<1>2. /\ Append(e, x) \in Seq(Node) /\ Len(Append(e, x)) = n + 1
      /\ \A k \in 1..n : Append(e, x)[k] = e[k]
      /\ Append(e, x)[n + 1] = x
  BY <1>1
<1>3. \A s \in Seq(Node) : s \in [1..Len(s) -> Node] OBVIOUS
<1>4. Append(e, x) \in [1..(n + 1) -> Node] BY <1>2, <1>3
<1> QED BY <1>2, <1>4

\* A path of one length is one of all the elements.
LEMMA ElementsHold ==
  ASSUME array \in Arrays, NEW i \in 1..Consumer, NEW e \in [1..Depth(i) -> Node]
  PROVE  e \in Elements
BY DepthFacts DEF Elements

-------------------------------------------------------------------------------
(* Types *)

\* What the variables of the iteration are at a step that leaves the input.
Typed == TypeOK /\ InputOK /\ Bodies

\* The definitions that depend on the array only.
LEMMA SameInput ==
  ASSUME UNCHANGED input
  PROVE  /\ Stage' = Stage /\ Consumer' = Consumer /\ Hops' = Hops /\ Elements' = Elements
         /\ Described' = Described
         /\ \A i, e : (Partial(i, e)' <=> Partial(i, e)) /\ Objects(i, e)' = Objects(i, e)
BY DEF input, Stage, Consumer, Hops, Elements, Described, Partial, Objects, Last

\* A body is called with an element of its length.
LEMMA CallTyped ==
  ASSUME Typed, UNCHANGED input, NEW i \in Stage, level = i, NEW e, Call(i + 1, e),
         e = Failure \/ e \in [1..Depth(i + 1) -> Node]
  PROVE  /\ level' \in 0..Consumer /\ answer' \in {"call", "more", "stop"}
         /\ at' \in [1..Consumer -> Elements \union {Failure}]
         /\ panicked' \in BOOLEAN /\ Bodies'
<1>1. /\ i \in 1..Consumer /\ i + 1 \in 1..Consumer /\ level \in Nat /\ Consumer \in Nat
      /\ at \in [1..Consumer -> Elements \union {Failure}]
  BY ArrayFacts DEF Typed, TypeOK, InputOK, Stage, Consumer
<1>2. e \in Elements \union {Failure} BY <1>1, ElementsHold DEF Typed, InputOK
<1>3. CASE i + 1 \in stopped
  BY <1>3 DEF Call, Typed, TypeOK, Bodies
<1>4. CASE i + 1 \notin stopped
  <2>1. level' = i + 1 /\ answer' = "call" /\ at' = [at EXCEPT ![i + 1] = e] /\ panicked' = panicked
    BY <1>4 DEF Call
  <2>2. at' \in [1..Consumer -> Elements \union {Failure}] BY <1>1, <1>2, <2>1
  <2>3. \A j \in 1..(i + 1) : j \in 1..Consumer /\ at'[j] = IF j = i + 1 THEN e ELSE at[j]
    BY <1>1, <2>1
  <2>4. \A j \in 1..(i + 1) : j = i + 1 \/ j \in 1..level BY <1>1
  <2>5. Bodies' BY <2>1, <2>3, <2>4 DEF Typed, Bodies
  <2> QED BY <1>1, <2>1, <2>2, <2>5 DEF Typed, TypeOK, Consumer
<1> QED BY <1>3, <1>4

\* A body that answers leaves the stack.
LEMMA AnswerTyped ==
  ASSUME Typed, UNCHANGED input, NEW i \in 1..Consumer, level = i,
         NEW a \in {"more", "stop"}, Answer(i, a)
  PROVE  /\ level' \in 0..Consumer /\ answer' \in {"call", "more", "stop"}
         /\ at' \in [1..Consumer -> Elements \union {Failure}]
         /\ panicked' \in BOOLEAN /\ stopped' \subseteq 1..Consumer /\ Bodies'
<1>1. Consumer \in Nat BY ArrayFacts DEF Typed, InputOK
<1>2. level' = i - 1 /\ i - 1 \in 0..Consumer /\ \A j \in 1..(i - 1) : j \in 1..level BY <1>1 DEF Answer
<1>3. Bodies' BY <1>2 DEF Answer, Typed, Bodies
<1> QED BY <1>2, <1>3 DEF Answer, Typed, TypeOK

\* The nodes Fetch has to visit are nodes.
LEMMA ObjectsAreNodes ==
  ASSUME InputOK, NEW i, NEW e PROVE Objects(i, e) \subseteq Node
<1>1. typed[array[1]] \subseteq Node BY ArrayFacts DEF InputOK
<1> QED BY <1>1 DEF Objects

\* The steps that concern one stage keep the types.
LEMMA StageTyped ==
  ASSUME Typed, UNCHANGED input, NEW i \in Stage, StageStep(i)
  PROVE  Typed'
<1>1. /\ level = i /\ out' = out /\ i \in 1..Consumer /\ i + 1 \in 1..Consumer /\ Consumer \in Nat
      /\ Stage' = Stage /\ Consumer' = Consumer /\ Elements' = Elements
  BY SameInput, ArrayFacts DEF StageStep, Typed, InputOK, Stage, Consumer
<1>2. InputOK' BY DEF Typed, InputOK, input
<1>3. /\ at[i] # Failure => at[i] \in [1..Depth(i) -> Node] /\ Depth(i) \in Nat
      /\ todo \in [Stage -> SUBSET Node]
  BY <1>1, DepthFacts DEF Typed, Bodies, InputOK, TypeOK
<1>4. ASSUME /\ level' \in 0..Consumer /\ answer' \in {"call", "more", "stop"}
             /\ at' \in [1..Consumer -> Elements \union {Failure}]
             /\ panicked' \in BOOLEAN /\ Bodies'
             /\ todo' \in [Stage -> SUBSET Node] /\ stopped' \subseteq 1..Consumer
             /\ failed' \in BOOLEAN
      PROVE  Typed'
  BY <1>1, <1>2, <1>4 DEF Typed, TypeOK, InputOK
<1>5. CASE StartFetch(i)
  <2>1. todo' = [todo EXCEPT ![i] = Objects(i, at[i])] /\ Objects(i, at[i]) \in SUBSET Node
    BY <1>5, ObjectsAreNodes DEF StartFetch, Typed
  <2>2. todo' \in [Stage -> SUBSET Node] BY <1>3, <2>1
  <2>3. Bodies' BY <1>5 DEF StartFetch, Typed, Bodies
  <2> QED BY <1>4, <1>5, <2>2, <2>3 DEF StartFetch, Typed, TypeOK
<1>6. CASE Visit(i)
  <2>1. PICK n \in todo[i] : /\ todo' = [todo EXCEPT ![i] = Left(i, n)]
                             /\ Call(i + 1, Append(at[i], n))
    BY <1>6 DEF Visit
  <2>2. n \in Node /\ todo[i] \in SUBSET Node BY <1>3, <2>1
  <2>3. todo' \in [Stage -> SUBSET Node] BY <1>3, <2>1, <2>2 DEF Left
  <2>4. IsExpand(i) /\ at[i] # Failure BY <1>6 DEF Visit
  <2>5. Depth(i + 1) = Depth(i) + 1 BY <2>4, DepthFacts DEF Typed, InputOK
  <2>6. Append(at[i], n) \in [1..Depth(i + 1) -> Node] BY <1>3, <2>2, <2>4, <2>5, Longer
  <2> QED BY <1>1, <1>4, <1>6, <2>1, <2>3, <2>6, CallTyped DEF Visit, Typed, TypeOK
<1>7. CASE Exhausted(i)
  BY <1>1, <1>4, <1>7, AnswerTyped DEF Exhausted, Typed, TypeOK
<1>8. CASE Aborted(i)
  <2>1. todo' \in [Stage -> SUBSET Node] BY <1>3, <1>8 DEF Aborted
  <2> QED BY <1>1, <1>4, <1>8, <2>1, AnswerTyped DEF Aborted, Typed, TypeOK
<1>9. CASE Restrict(i)
  <2>1. ~IsExpand(i) /\ at[i] # Failure /\ UNCHANGED <<todo, failed>> BY <1>9 DEF Restrict
  <2>2. Depth(i + 1) = Depth(i) BY <2>1, DepthFacts DEF Typed, InputOK
  <2>3. CASE Call(i + 1, Kept(i)) /\ UNCHANGED stopped
    BY <1>1, <1>3, <1>4, <2>1, <2>2, <2>3, CallTyped DEF Kept, Typed, TypeOK
  <2>4. CASE Answer(i, Unrelated)
    BY <1>1, <1>4, <2>1, <2>4, AnswerTyped DEF Unrelated, Typed, TypeOK
  <2> QED BY <1>9, <2>3, <2>4 DEF Restrict
<1>10. CASE Restricted(i)
  <2>1. answer \in {"more", "stop"} BY <1>10 DEF Restricted, Typed, TypeOK
  <2> QED BY <1>1, <1>4, <1>10, <2>1, AnswerTyped DEF Restricted, Typed, TypeOK
<1>11. CASE Fail(i)
  <2>1. failed' = TRUE /\ UNCHANGED <<todo, stopped>> BY <1>11 DEF Fail
  <2>2. CASE i + 1 \in stopped
    <3>1. Bodies' BY <1>11, <2>2 DEF Fail, Typed, Bodies
    <3> QED BY <1>4, <1>11, <2>1, <2>2, <3>1 DEF Fail, Typed, TypeOK
  <2>3. CASE i + 1 \notin stopped
    <3>1. /\ level' = i + 1 /\ answer' = "call" /\ panicked' = panicked
          /\ at' = [at EXCEPT ![i] = Failure, ![i + 1] = Failure]
      BY <1>11, <2>3 DEF Fail
    <3>2. /\ at' \in [1..Consumer -> Elements \union {Failure}]
          /\ \A j \in 1..Consumer : at'[j] = at[j] \/ at'[j] = Failure
      BY <1>1, <3>1 DEF Typed, TypeOK
    <3>3. \A j \in 1..(i + 1) : j \in 1..Consumer /\ (j = i + 1 \/ j \in 1..level) BY <1>1
    <3>4. at'[i + 1] = Failure BY <1>1, <3>1 DEF Typed, TypeOK
    <3>5. Bodies' BY <3>1, <3>2, <3>3, <3>4 DEF Bodies, Typed
    <3> QED BY <1>1, <1>4, <2>1, <3>1, <3>2, <3>5 DEF Typed, TypeOK
  <2> QED BY <2>2, <2>3
<1>12. CASE PassFailure(i)
  <2>1. UNCHANGED <<todo, failed>> BY <1>12 DEF PassFailure
  <2>2. CASE Call(i + 1, Failure) /\ UNCHANGED stopped
    BY <1>1, <1>4, <2>1, <2>2, CallTyped DEF Typed, TypeOK
  <2>3. CASE Answer(i, "stop")
    BY <1>1, <1>4, <2>1, <2>3, AnswerTyped DEF Typed, TypeOK
  <2> QED BY <1>12, <2>2, <2>3 DEF PassFailure
<1> QED BY <1>5, <1>6, <1>7, <1>8, <1>9, <1>10, <1>11, <1>12 DEF StageStep

\* So does the consumer.
LEMMA ConsumeTyped ==
  ASSUME Typed, UNCHANGED input, Consume
  PROVE  Typed'
<1>1. /\ level = Consumer /\ Consumer \in 1..Consumer /\ UNCHANGED <<todo, failed>>
      /\ Stage' = Stage /\ Consumer' = Consumer /\ Elements' = Elements
  BY SameInput, ArrayFacts DEF Consume, Typed, InputOK
<1>2. InputOK' BY DEF Typed, InputOK, input
<1>3. at[Consumer] \in Elements \union {Failure} /\ out \in Seq(Elements)
  BY <1>1 DEF Typed, TypeOK
<1>4. out' \in Seq(Elements) BY <1>3 DEF Consume
<1>5. PICK a \in {"more", "stop"} : Answer(Consumer, a) BY DEF Consume
<1> QED BY <1>1, <1>2, <1>4, <1>5, AnswerTyped DEF Typed, TypeOK, InputOK

-------------------------------------------------------------------------------
(* What the stages do to an element *)

\* The node a described path goes on with is one that Fetch visits.
LEMMA NextNode ==
  ASSUME InputOK, NEW i \in Stage, IsExpand(i), at[i] \in [1..Depth(i) -> Node],
         NEW d \in Described, Through(i, d)
  PROVE  d[Depth(i) + 1] \in Objects(i, at[i])
<1>1. /\ Len(array) \in Nat /\ DOMAIN array = 1..Len(array) /\ Hops = Len(array) \div 2
      /\ i \in 1..Len(array) /\ i \in 1..Consumer
  BY ArrayFacts DEF InputOK, Hops, Stage, Consumer
<1>2. /\ d \in [1..(Hops + 1) -> Node]
      /\ \A k \in 1..Hops : <<d[k], d[k + 1]>> \in edges[array[2 * k]]
      /\ \A k \in 1..(Hops + 1) : 2 * k - 1 \in DOMAIN array => d[k] \in typed[array[2 * k - 1]]
  BY DEF Described
<1>3. CASE i = 1
  <2>1. Depth(i) = 0 /\ 1 \in 1..(Hops + 1) /\ 2 * 1 - 1 = 1 BY <1>1, <1>3 DEF Depth
  <2>2. d[1] \in typed[array[1]] BY <1>1, <1>2, <1>3, <2>1
  <2> QED BY <1>3, <2>1, <2>2 DEF Objects
<1>4. CASE i # 1
  <2> DEFINE n == Depth(i)
  <2>1. n \in Nat /\ 2 * n = i /\ n > 0 BY <1>1, <1>4, DepthFacts DEF InputOK
  <2> HIDE DEF n
  <2>2. n \in 1..Hops BY <1>1, <2>1
  <2>3. Last(at[i]) = at[i][n] BY <2>1, ElementFacts DEF Last, n
  <2>4. at[i][n] = d[n] BY <2>1 DEF Through, n
  <2>5. d[n + 1] \in Node BY <1>1, <1>2, <2>2
  <2>6. <<d[n], d[n + 1]>> \in edges[array[i]] BY <1>2, <2>1, <2>2
  <2> QED BY <1>4, <2>3, <2>4, <2>5, <2>6 DEF Objects, n
<1> QED BY <1>3, <1>4

\* The node a described path has at a class is in the class.
LEMMA OwnNode ==
  ASSUME InputOK, NEW i \in Stage, ~IsExpand(i), at[i] \in [1..Depth(i) -> Node],
         NEW d \in Described, Through(i, d)
  PROVE  Last(at[i]) \in typed[array[i]]
<1> DEFINE n == Depth(i)
<1>1. /\ Len(array) \in Nat /\ DOMAIN array = 1..Len(array) /\ Hops = Len(array) \div 2
      /\ i \in 1..Len(array) /\ i \in 1..Consumer
  BY ArrayFacts DEF InputOK, Hops, Stage, Consumer
<1>2. n \in Nat /\ 2 * n - 1 = i /\ n > 1 BY <1>1, DepthFacts DEF InputOK
<1> HIDE DEF n
<1>3. n \in 1..(Hops + 1) BY <1>1, <1>2
<1>4. d[n] \in typed[array[i]] BY <1>1, <1>2, <1>3 DEF Described
<1>5. Last(at[i]) = at[i][n] BY <1>2, ElementFacts DEF Last, n
<1>6. at[i][n] = d[n] BY <1>2 DEF Through, n
<1> QED BY <1>4, <1>5, <1>6

\* A stage that expands makes a longer element that is described so far.
LEMMA PartialGrows ==
  ASSUME InputOK, NEW i \in Stage, IsExpand(i), NEW e, Partial(i, e), NEW x \in Objects(i, e)
  PROVE  Partial(i + 1, Append(e, x))
<1> DEFINE n == Depth(i)
           f == Append(e, x)
<1>1. /\ i \in 1..Consumer /\ i \in Nat /\ Depth(i + 1) = n + 1 /\ n \in Nat
      /\ i # 1 => 2 * n = i /\ n > 0
      /\ i = 1 => n = 0
  BY ArrayFacts, DepthFacts DEF InputOK, Stage, Consumer
<1>2. x \in Node BY ObjectsAreNodes
<1>3. e \in [1..n -> Node] BY DEF Partial
<1>4. f \in [1..(n + 1) -> Node] /\ (\A k \in 1..n : f[k] = e[k]) /\ f[n + 1] = x
  BY <1>1, <1>2, <1>3, Longer
<1>5. n > 0 => <<e[n], x>> \in edges[array[2 * n]]
  BY <1>1, <1>3, ElementFacts DEF Objects, Last
<1>6. i = 1 => x \in typed[array[1]] BY DEF Objects
<1>7. /\ \A k \in 1..(n - 1) : <<e[k], e[k + 1]>> \in edges[array[2 * k]]
      /\ \A k \in 1..n : 2 * k - 1 < i => e[k] \in typed[array[2 * k - 1]]
  BY DEF Partial
<1> HIDE DEF n, f
<1>8. \A k \in 1..((n + 1) - 1) : <<f[k], f[k + 1]>> \in edges[array[2 * k]]
  <2> SUFFICES ASSUME NEW k \in 1..n PROVE <<f[k], f[k + 1]>> \in edges[array[2 * k]]
    BY <1>1
  <2>1. CASE k < n
    <3>1. k \in 1..(n - 1) /\ k + 1 \in 1..n BY <1>1, <2>1
    <3> QED BY <1>4, <1>7, <3>1
  <2>2. CASE k = n BY <1>1, <1>4, <1>5, <2>2
  <2> QED BY <1>1, <2>1, <2>2
<1>9. \A k \in 1..(n + 1) : 2 * k - 1 < i + 1 => f[k] \in typed[array[2 * k - 1]]
  <2> SUFFICES ASSUME NEW k \in 1..(n + 1), 2 * k - 1 < i + 1
               PROVE  f[k] \in typed[array[2 * k - 1]]
    OBVIOUS
  <2>1. CASE k =< n
    <3>1. i # 1 /\ 2 * n = i /\ k \in 1..n /\ 2 * k - 1 < i BY <1>1, <2>1
    <3> QED BY <1>4, <1>7, <3>1
  <2>2. CASE k = n + 1
    <3>1. i = 1 /\ k = 1 /\ 2 * k - 1 = 1 BY <1>1, <2>2
    <3> QED BY <1>4, <1>6, <2>2, <3>1
  <2> QED BY <1>1, <2>1, <2>2
<1> QED BY <1>1, <1>4, <1>8, <1>9 DEF Partial, f

\* A stage that restricts passes on what is described with its class.
LEMMA PartialRestricted ==
  ASSUME InputOK, NEW i \in Stage, ~IsExpand(i), NEW e, Partial(i, e),
         Last(e) \in typed[array[i]]
  PROVE  Partial(i + 1, e)
<1> DEFINE n == Depth(i)
<1>1. i \in 1..Consumer /\ i \in Nat /\ Depth(i + 1) = n /\ n \in Nat /\ 2 * n - 1 = i
  BY ArrayFacts, DepthFacts DEF InputOK, Stage, Consumer
<1>2. e \in [1..n -> Node] BY DEF Partial
<1>3. Last(e) = e[n] BY <1>1, <1>2, ElementFacts DEF Last
<1>4. /\ \A k \in 1..(n - 1) : <<e[k], e[k + 1]>> \in edges[array[2 * k]]
      /\ \A k \in 1..n : 2 * k - 1 < i => e[k] \in typed[array[2 * k - 1]]
  BY DEF Partial
<1> HIDE DEF n
<1>5. \A k \in 1..n : 2 * k - 1 < i + 1 => 2 * k - 1 < i \/ (k = n /\ 2 * k - 1 = i) BY <1>1
<1>6. \A k \in 1..n : 2 * k - 1 < i + 1 => e[k] \in typed[array[2 * k - 1]]
  BY <1>3, <1>4, <1>5
<1> QED BY <1>1, <1>2, <1>4, <1>6 DEF Partial

-------------------------------------------------------------------------------
(* While nothing goes wrong *)

LiveInv == Inv /\ Live

\* What is known of the stage that has control.
LEMMA LiveFacts ==
  ASSUME LiveInv, NEW i \in Stage, level = i
  PROVE  /\ Typed /\ InputOK /\ Chain /\ Progress
         /\ i \in 1..Consumer /\ i \in Nat /\ Consumer \in Nat /\ i + 1 \in 1..Consumer
         /\ Partial(i, at[i]) /\ at[i] \in [1..Depth(i) -> Node] /\ at[i] # Failure
         /\ Depth(i) \in Nat /\ i \in 1..level
         /\ at \in [1..Consumer -> Elements \union {Failure}] /\ todo \in [Stage -> SUBSET Node]
<1>1. Typed /\ InputOK /\ Chain /\ Progress BY DEF LiveInv, Inv, Typed
<1>2. /\ i \in 1..Consumer /\ i \in Nat /\ Consumer \in Nat /\ i + 1 \in 1..Consumer
      /\ i \in 1..level
  BY <1>1, ArrayFacts DEF InputOK, Stage, Consumer
<1>3. Depth(i) \in Nat BY <1>1, <1>2, DepthFacts DEF InputOK
<1>4. Partial(i, at[i]) BY <1>1, <1>2 DEF Chain
<1>5. at[i] \in [1..Depth(i) -> Node] BY <1>4 DEF Partial
<1> QED BY <1>1, <1>2, <1>3, <1>4, <1>5, ElementFacts DEF Typed, TypeOK

\* As long as nobody stops, every iterator on the stack answers to its own Fetch.
LEMMA StillLive ==
  ASSUME LiveInv, UNCHANGED <<input, out, stopped, failed>>,
         \A d \in Described : Pending(d)' <=> Pending(d), Chain'
  PROVE  Live' /\ Chain' /\ Progress'
<1>1. Described' = Described /\ Handed' = Handed BY SameInput DEF Handed
<1>2. Progress BY DEF LiveInv, Inv
<1> QED BY <1>1, <1>2 DEF Progress, LiveInv, Live

\* Fetch is called: the paths through its element are those through its nodes.
LEMMA StartFetchLive ==
  ASSUME LiveInv, UNCHANGED <<input, out>>, NEW i \in Stage, level = i, StartFetch(i)
  PROVE  Live' /\ Chain' /\ Progress'
<1>1. /\ IsExpand(i) /\ answer = "call" /\ answer' = "more"
      /\ todo' = [todo EXCEPT ![i] = Objects(i, at[i])]
      /\ UNCHANGED <<level, at, stopped, failed>>
  BY DEF StartFetch
<1>2. /\ InputOK /\ Chain /\ i \in Nat /\ i \in 1..Consumer /\ Consumer \in Nat
      /\ at[i] \in [1..Depth(i) -> Node] /\ todo \in [Stage -> SUBSET Node] /\ Stage = 1..Len(array)
      /\ Len(array) \in Nat
  BY LiveFacts, ArrayFacts DEF InputOK, Stage
<1>3. todo'[i] = Objects(i, at[i]) /\ \A j \in 1..(i - 1) : todo'[j] = todo[j]
  BY <1>1, <1>2
<1>4. Consumer' = Consumer /\ \A j, e : (Partial(j, e)' <=> Partial(j, e)) /\ Objects(j, e)' = Objects(j, e)
  BY SameInput
<1>5. \A j, d : Through(j, d)' <=> Through(j, d) BY <1>1 DEF Through
<1>6. \A d \in Described : Pending(d)' <=> Pending(d)
  <2> SUFFICES ASSUME NEW d \in Described PROVE Pending(d)' <=> Pending(d) OBVIOUS
  <2>1. \A j \in 1..(i - 1) : Later(j, d)' <=> Later(j, d) BY <1>3, <1>5 DEF Later
  <2>2. Later(i, d)' <=> Through(i, d)
    BY <1>1, <1>2, <1>3, <1>5, NextNode DEF Later
  <2> QED BY <1>1, <1>2, <2>1, <2>2 DEF Pending
<1>7. Chain'
  <2>1. \A j \in 1..i : j = i \/ j \in 1..(i - 1) BY <1>2
  <2>2. \A j \in 1..i : IsExpand(j) => todo'[j] \subseteq Objects(j, at[j])
    <3>1. \A j \in 1..(i - 1) : IsExpand(j) => todo[j] \subseteq Objects(j, at[j])
      BY <1>2 DEF Chain, Open
    <3> QED BY <1>3, <2>1, <3>1
  <2>3. \A j, k \in 1..i : j < k =>
           Through(j, at[k]) /\ (IsExpand(j) => at[k][Depth(j) + 1] \notin todo'[j])
    BY <1>2, <1>3 DEF Chain
  <2>4. level # Consumer BY <1>2 DEF Consumer
  <2> QED BY <1>1, <1>2, <1>4, <1>5, <2>2, <2>3, <2>4 DEF Chain
<1> QED BY <1>1, <1>6, <1>7, StillLive

\* Fetch visits a node: the paths through it come from the call, the others
\* from the nodes that are left.
LEMMA VisitLive ==
  ASSUME LiveInv, UNCHANGED <<input, out>>, NEW i \in Stage, level = i, Visit(i)
  PROVE  Live' /\ Chain' /\ Progress'
<1>1. /\ IsExpand(i) /\ answer = "more" /\ UNCHANGED <<stopped, failed>> /\ stopped = {}
  BY DEF Visit, LiveInv, Live
<1>2. PICK n \in todo[i] : /\ todo' = [todo EXCEPT ![i] = Left(i, n)]
                           /\ Call(i + 1, Append(at[i], n))
  BY DEF Visit
<1> DEFINE e == Append(at[i], n)
<1>3. level' = i + 1 /\ answer' = "call" /\ at' = [at EXCEPT ![i + 1] = e]
  BY <1>1, <1>2 DEF Call
<1>4. /\ InputOK /\ Chain /\ i \in Nat /\ i \in 1..Consumer /\ Consumer \in Nat
      /\ i + 1 \in 1..Consumer /\ i \in 1..level
      /\ at[i] \in [1..Depth(i) -> Node] /\ todo \in [Stage -> SUBSET Node] /\ Stage = 1..Len(array)
      /\ Partial(i, at[i]) /\ Depth(i) \in Nat /\ Len(array) \in Nat
      /\ at \in [1..Consumer -> Elements \union {Failure}]
  BY LiveFacts, ArrayFacts DEF InputOK, Stage
<1>5. todo'[i] = todo[i] \ {n} /\ \A j \in 1..(i - 1) : todo'[j] = todo[j]
  BY <1>2, <1>4 DEF Left
<1>6. at'[i + 1] = e /\ \A j \in 1..i : at'[j] = at[j] BY <1>3, <1>4
<1>7. n \in Objects(i, at[i]) /\ n \in Node BY <1>1, <1>2, <1>4, ObjectsAreNodes DEF Chain, Open
<1>8. Depth(i + 1) = Depth(i) + 1 BY <1>1, <1>4, DepthFacts DEF InputOK
<1>9. /\ Partial(i + 1, e) /\ e[Depth(i) + 1] = n /\ \A k \in 1..Depth(i) : e[k] = at[i][k]
  BY <1>1, <1>4, <1>7, PartialGrows, Longer
<1>10. Consumer' = Consumer /\ \A j, f : (Partial(j, f)' <=> Partial(j, f)) /\ Objects(j, f)' = Objects(j, f)
  BY SameInput
<1> HIDE DEF e
<1>11. \A j \in 1..i : \A d : Through(j, d)' <=> Through(j, d) BY <1>6 DEF Through
<1>12. \A d : Through(i + 1, d)' <=> Through(i, d) /\ d[Depth(i) + 1] = n
  BY <1>4, <1>6, <1>8, <1>9 DEF Through
<1>13. \A d \in Described : Pending(d)' <=> Pending(d)
  <2> SUFFICES ASSUME NEW d \in Described PROVE Pending(d)' <=> Pending(d) OBVIOUS
  <2>1. \A j \in 1..(i - 1) : j \in 1..i /\ (Later(j, d)' <=> Later(j, d))
    BY <1>4, <1>5, <1>11 DEF Later
  <2>2. Later(i, d) <=> Later(i, d)' \/ Through(i + 1, d)'
    BY <1>1, <1>2, <1>4, <1>5, <1>11, <1>12 DEF Later
  <2>3. Pending(d)' <=> (\E j \in 1..i : Later(j, d)') \/ Through(i + 1, d)'
    BY <1>3, <1>4 DEF Pending
  <2>4. Pending(d) <=> (\E j \in 1..(i - 1) : Later(j, d)) \/ Later(i, d)
    BY <1>1, <1>4 DEF Pending
  <2>5. \A j : j \in 1..i <=> j \in 1..(i - 1) \/ j = i BY <1>4
  <2> QED BY <2>1, <2>2, <2>3, <2>4, <2>5
<1>14. Chain'
  <2>1. \A j \in 1..(i + 1) : j = i + 1 \/ j \in 1..i BY <1>4
  <2>2. \A j \in 1..i : j = i \/ j \in 1..(i - 1) BY <1>4
  <2>3. \A j \in 1..(i + 1) : Partial(j, at'[j])
    <3>1. \A j \in 1..i : Partial(j, at[j]) BY <1>4 DEF Chain
    <3> QED BY <1>6, <1>9, <2>1, <3>1
  <2>4. \A j \in 1..i : IsExpand(j) => todo'[j] \subseteq Objects(j, at'[j])
    <3>1. \A j \in 1..i : IsExpand(j) => todo[j] \subseteq Objects(j, at[j])
      BY <1>1, <1>4 DEF Chain, Open
    <3>2. \A j \in 1..i : todo'[j] \subseteq todo[j] BY <1>5, <2>2
    <3> QED BY <1>6, <3>1, <3>2
  <2>5. \A j, k \in 1..i : j < k =>
           Through(j, at[k]) /\ (IsExpand(j) => at[k][Depth(j) + 1] \notin todo[j])
    BY <1>4 DEF Chain
  <2>6. \A j \in 1..i : Through(j, e) /\ (IsExpand(j) => e[Depth(j) + 1] \notin todo'[j])
    <3> SUFFICES ASSUME NEW j \in 1..i
                 PROVE  Through(j, e) /\ (IsExpand(j) => e[Depth(j) + 1] \notin todo'[j])
      OBVIOUS
    <3>1. CASE j = i BY <1>5, <1>9, <3>1 DEF Through
    <3>2. CASE j < i
      <4>1. j \in 1..(i - 1) /\ j \in 1..Consumer /\ i \in 1..i BY <1>4, <3>2
      <4>2. /\ Depth(j) \in Nat /\ Depth(j) =< Depth(i) /\ (IsExpand(j) => Depth(j) < Depth(i))
        BY <1>4, <3>2, <4>1, DepthFacts DEF InputOK
      <4>3. Through(j, at[i]) /\ (IsExpand(j) => at[i][Depth(j) + 1] \notin todo[j])
        BY <2>5, <3>2, <4>1
      <4>4. Through(j, e) BY <1>4, <1>9, <4>2, <4>3 DEF Through
      <4>5. IsExpand(j) => e[Depth(j) + 1] = at[i][Depth(j) + 1] BY <1>4, <1>9, <4>2
      <4> QED BY <1>5, <4>1, <4>3, <4>4, <4>5
    <3> QED BY <1>4, <3>1, <3>2
  <2>7. \A j, k \in 1..(i + 1) : j < k =>
           /\ \A m \in 1..Depth(j) : at'[k][m] = at'[j][m]
           /\ IsExpand(j) => at'[k][Depth(j) + 1] \notin todo'[j]
    <3> SUFFICES ASSUME NEW j \in 1..(i + 1), NEW k \in 1..(i + 1), j < k
                 PROVE  /\ \A m \in 1..Depth(j) : at'[k][m] = at'[j][m]
                        /\ IsExpand(j) => at'[k][Depth(j) + 1] \notin todo'[j]
      OBVIOUS
    <3>1. j \in 1..i BY <1>4
    <3>2. CASE k = i + 1 BY <1>6, <2>6, <3>1, <3>2 DEF Through
    <3>3. CASE k \in 1..i
      <4>1. j \in 1..(i - 1) BY <1>4, <3>3
      <4> QED BY <1>5, <1>6, <2>5, <3>1, <3>3, <4>1 DEF Through
    <3> QED BY <2>1, <3>2, <3>3
  <2>8. \A j \in 1..(i + 1) : Open(j)' => j \in 1..i BY <1>3, <1>4 DEF Open
  <2> QED BY <1>3, <1>10, <2>3, <2>4, <2>7, <2>8 DEF Chain, Through
<1> QED BY <1>1, <1>13, <1>14, StillLive

\* A body comes to its end; those below it are as they were.
LEMMA ChainShortens ==
  ASSUME LiveInv, UNCHANGED <<input, at, todo>>, NEW i \in 1..Consumer, level = i,
         level' = i - 1, answer' = "more"
  PROVE  /\ Chain'
         /\ \A d : Pending(d)' <=> \E j \in 1..(i - 1) : Later(j, d)
<1>1. Consumer \in Nat /\ i \in Nat /\ Chain BY ArrayFacts DEF LiveInv, Inv, InputOK
<1>2. Consumer' = Consumer /\ \A j, e : (Partial(j, e)' <=> Partial(j, e)) /\ Objects(j, e)' = Objects(j, e)
  BY SameInput
<1>3. \A j \in 1..(i - 1) : j \in 1..i /\ j < i BY <1>1
<1>4. /\ \A j \in 1..(i - 1) : Partial(j, at[j])
      /\ \A j \in 1..(i - 1) : IsExpand(j) => todo[j] \subseteq Objects(j, at[j])
      /\ \A j, k \in 1..(i - 1) : j < k =>
            Through(j, at[k]) /\ (IsExpand(j) => at[k][Depth(j) + 1] \notin todo[j])
  BY <1>1, <1>3 DEF Chain, Open
<1>5. \A j, d : (Through(j, d)' <=> Through(j, d)) /\ (Later(j, d)' <=> Later(j, d))
  BY DEF Through, Later
<1>6. i - 1 # Consumer BY <1>1
<1>7. Chain' BY <1>2, <1>4, <1>5, <1>6 DEF Chain
<1>8. \A d : Pending(d)' <=> \E j \in 1..(i - 1) : Later(j, d)
  <2> SUFFICES ASSUME NEW d PROVE Pending(d)' <=> \E j \in 1..(i - 1) : Later(j, d) OBVIOUS
  <2>1. Pending(d)' <=> \/ \E j \in 1..((i - 1) - 1) : Later(j, d)
                        \/ i - 1 > 0 /\ Later(i - 1, d)
    BY <1>5 DEF Pending
  <2>2. \A j : j \in 1..(i - 1) <=> j \in 1..((i - 1) - 1) \/ (i - 1 > 0 /\ j = i - 1)
    BY <1>1
  <2> QED BY <2>1, <2>2
<1> QED BY <1>7, <1>8

\* An element a stage passes on as it is.
LEMMA PassOnLive ==
  ASSUME LiveInv, UNCHANGED <<input, out, todo, stopped, failed>>, NEW i \in Stage, level = i,
         ~IsExpand(i), answer = "call", Last(at[i]) \in typed[array[i]], Call(i + 1, at[i])
  PROVE  Live' /\ Chain' /\ Progress'
<1>1. level' = i + 1 /\ answer' = "call" /\ at' = [at EXCEPT ![i + 1] = at[i]]
  BY DEF Call, LiveInv, Live
<1>2. /\ InputOK /\ Chain /\ i \in Nat /\ i \in 1..Consumer /\ Consumer \in Nat
      /\ i + 1 \in 1..Consumer /\ i \in 1..level
      /\ Partial(i, at[i]) /\ Depth(i) \in Nat
      /\ at \in [1..Consumer -> Elements \union {Failure}]
  BY LiveFacts
<1>3. at'[i + 1] = at[i] /\ \A j \in 1..i : at'[j] = at[j] BY <1>1, <1>2
<1>4. Depth(i + 1) = Depth(i) BY <1>2, DepthFacts DEF InputOK
<1>5. Partial(i + 1, at[i]) BY <1>2, PartialRestricted
<1>6. Consumer' = Consumer /\ \A j, f : (Partial(j, f)' <=> Partial(j, f)) /\ Objects(j, f)' = Objects(j, f)
  BY SameInput
<1>7. \A j \in 1..i : \A d : (Through(j, d)' <=> Through(j, d)) /\ (Later(j, d)' <=> Later(j, d))
  BY <1>3 DEF Through, Later
<1>8. \A d : Through(i + 1, d)' <=> Through(i, d) BY <1>3, <1>4 DEF Through
<1>9. \A d \in Described : Pending(d)' <=> Pending(d)
  <2> SUFFICES ASSUME NEW d \in Described PROVE Pending(d)' <=> Pending(d) OBVIOUS
  <2>1. Pending(d)' <=> (\E j \in 1..i : Later(j, d)) \/ Through(i, d)
    BY <1>1, <1>2, <1>7, <1>8 DEF Pending
  <2>2. Pending(d) <=> (\E j \in 1..(i - 1) : Later(j, d)) \/ Through(i, d)
    BY <1>2 DEF Pending
  <2>3. ~Later(i, d) BY DEF Later
  <2>4. \A j : j \in 1..i <=> j \in 1..(i - 1) \/ j = i BY <1>2
  <2> QED BY <2>1, <2>2, <2>3, <2>4
<1>10. Chain'
  <2>1. \A j \in 1..(i + 1) : j = i + 1 \/ j \in 1..i BY <1>2
  <2>2. \A j \in 1..(i + 1) : Partial(j, at'[j])
    <3>1. \A j \in 1..i : Partial(j, at[j]) BY <1>2 DEF Chain
    <3> QED BY <1>3, <1>5, <2>1, <3>1
  <2>3. \A j \in 1..i : IsExpand(j) => todo'[j] \subseteq Objects(j, at'[j])
    <3>1. \A j \in 1..i : j = i \/ j < i BY <1>2
    <3>2. \A j \in 1..i : IsExpand(j) => j < i BY <3>1
    <3> QED BY <1>2, <1>3, <3>2 DEF Chain, Open
  <2>4. \A j, k \in 1..i : j < k =>
           Through(j, at[k]) /\ (IsExpand(j) => at[k][Depth(j) + 1] \notin todo[j])
    BY <1>2 DEF Chain
  <2>5. \A j, k \in 1..(i + 1) : j < k =>
           /\ \A m \in 1..Depth(j) : at'[k][m] = at'[j][m]
           /\ IsExpand(j) => at'[k][Depth(j) + 1] \notin todo'[j]
    <3> SUFFICES ASSUME NEW j \in 1..(i + 1), NEW k \in 1..(i + 1), j < k
                 PROVE  /\ \A m \in 1..Depth(j) : at'[k][m] = at'[j][m]
                        /\ IsExpand(j) => at'[k][Depth(j) + 1] \notin todo'[j]
      OBVIOUS
    <3>1. j \in 1..i BY <1>2
    <3>2. CASE k = i + 1
      <4>1. at'[k] = at[i] /\ at'[j] = at[j] BY <1>3, <3>1, <3>2
      <4>2. CASE j = i BY <4>1, <4>2
      <4>3. CASE j < i
        <5>1. i \in 1..i BY <1>2
        <5> QED BY <2>4, <3>1, <4>1, <4>3, <5>1 DEF Through
      <4> QED BY <1>2, <3>1, <4>2, <4>3
    <3>3. CASE k \in 1..i BY <1>3, <2>4, <3>1, <3>3 DEF Through
    <3> QED BY <2>1, <3>2, <3>3
  <2>6. \A j \in 1..(i + 1) : Open(j)' => j \in 1..i BY <1>1, <1>2 DEF Open
  <2> QED BY <1>1, <1>6, <2>2, <2>3, <2>5, <2>6 DEF Chain, Through
<1> QED BY <1>9, <1>10, StillLive

\* A stage that has nothing more to yield.
LEMMA PopLive ==
  ASSUME LiveInv, UNCHANGED <<input, out, todo, failed>>, NEW i \in Stage, level = i,
         Answer(i, "more"),
         \A d \in Described : IF answer = "call" THEN ~Through(i, d) ELSE ~Later(i, d)
  PROVE  Live' /\ Chain' /\ Progress'
<1>1. level' = i - 1 /\ answer' = "more" /\ UNCHANGED <<at, stopped>> BY DEF Answer
<1>2. i \in 1..Consumer /\ i \in Nat BY LiveFacts
<1>3. Chain' /\ \A d : Pending(d)' <=> \E j \in 1..(i - 1) : Later(j, d)
  BY <1>1, <1>2, ChainShortens
<1>4. \A d \in Described : Pending(d) <=> \E j \in 1..(i - 1) : Later(j, d)
  BY <1>2 DEF Pending
<1> QED BY <1>1, <1>3, <1>4, StillLive

\* A failure is yielded to the next stage.
LEMMA FailLive ==
  ASSUME LiveInv, NEW i \in Stage, level = i, Fail(i)
  PROVE  ~Live' /\ Over'
<1>1. stopped = {} /\ i + 1 \notin stopped BY DEF LiveInv, Live
<1>2. /\ failed' = TRUE /\ level' = i + 1 /\ answer' = "call" /\ stopped' = stopped
      /\ at' = [at EXCEPT ![i] = Failure, ![i + 1] = Failure]
  BY <1>1 DEF Fail
<1>3. i + 1 \in 1..Consumer /\ i \in Nat /\ at \in [1..Consumer -> Elements \union {Failure}]
  BY LiveFacts
<1>4. at'[i + 1] = Failure /\ i + 1 > 0 BY <1>2, <1>3
<1> QED BY <1>1, <1>2, <1>4 DEF Live, Over

\* Every step of a stage.
LEMMA StageLive ==
  ASSUME LiveInv, UNCHANGED input, NEW i \in Stage, StageStep(i)
  PROVE  IF Live' THEN Chain' /\ Progress' ELSE Over'
<1>1. /\ level = i /\ out' = out /\ at[i] # Failure /\ answer # "stop" /\ InputOK /\ Chain
      /\ at[i] \in [1..Depth(i) -> Node]
  BY LiveFacts DEF StageStep, Chain
<1>2. CASE StartFetch(i) BY <1>1, <1>2, StartFetchLive
<1>3. CASE Visit(i) BY <1>1, <1>3, VisitLive
<1>4. CASE Exhausted(i)
  <2>1. todo[i] = {} /\ answer = "more" BY <1>4 DEF Exhausted
  <2>2. \A d : ~Later(i, d) BY <2>1 DEF Later
  <2> QED BY <1>1, <1>4, <2>1, <2>2, PopLive DEF Exhausted
<1>5. CASE Aborted(i) BY <1>1, <1>5 DEF Aborted
<1>6. CASE Restrict(i)
  <2>1. ~IsExpand(i) /\ answer = "call" /\ UNCHANGED <<todo, failed>> BY <1>6 DEF Restrict
  <2>2. CASE Last(at[i]) \in typed[array[i]]
    BY <1>1, <1>6, <2>1, <2>2, PassOnLive DEF Restrict, Kept
  <2>3. CASE Last(at[i]) \notin typed[array[i]]
    <3>1. \A d \in Described : ~Through(i, d) BY <1>1, <2>1, <2>3, OwnNode
    <3> QED BY <1>1, <1>6, <2>1, <2>3, <3>1, PopLive DEF Restrict, Unrelated
  <2> QED BY <2>2, <2>3
<1>7. CASE Restricted(i)
  <2>1. ~IsExpand(i) /\ answer # "call" /\ answer = "more" /\ UNCHANGED <<todo, failed>>
    BY <1>1, <1>7, LiveFacts DEF Restricted, Typed, TypeOK
  <2>2. \A d : ~Later(i, d) BY <2>1 DEF Later
  <2> QED BY <1>1, <1>7, <2>1, <2>2, PopLive DEF Restricted
<1>8. CASE Fail(i) BY <1>1, <1>8, FailLive
<1>9. CASE PassFailure(i) BY <1>1, <1>9 DEF PassFailure
<1> QED BY <1>2, <1>3, <1>4, <1>5, <1>6, <1>7, <1>8, <1>9 DEF StageStep

\* The consumer gets a described path it does not have.
LEMMA ConsumeLive ==
  ASSUME LiveInv, UNCHANGED input, Consume
  PROVE  NoDuplicates' /\ IF Live' THEN Chain' /\ Progress' ELSE Over'
<1> DEFINE c == at[Consumer]
<1>1. /\ InputOK /\ Chain /\ Progress /\ Typed /\ NoDuplicates /\ level = Consumer
      /\ Consumer \in Nat /\ Consumer \in 1..Consumer /\ Consumer > 0
  BY ArrayFacts DEF LiveInv, Inv, Typed, InputOK, Consume
<1>2. Partial(Consumer, c) /\ c \in Described /\ answer = "call"
  BY <1>1, PartialIsDescribed DEF Chain, InputOK
<1>3. c # Failure
  <2>1. Depth(Consumer) \in Nat BY <1>1, ArrayFacts, DepthFacts DEF InputOK
  <2>2. c \in [1..Depth(Consumer) -> Node] BY <1>2 DEF Partial
  <2> HIDE DEF c
  <2> QED BY <2>1, <2>2, ElementFacts
<1>4. out' = Append(out, c) /\ UNCHANGED <<at, todo, failed, panicked>>
  BY <1>3 DEF Consume, Answer
<1>5. out \in Seq(Elements) /\ c \in Elements
  BY <1>1, <1>3 DEF Typed, TypeOK
<1> HIDE DEF c
<1>6. /\ DOMAIN out' = 1..(Len(out) + 1) /\ DOMAIN out = 1..Len(out) /\ Len(out) \in Nat
      /\ out'[Len(out) + 1] = c /\ \A m \in 1..Len(out) : out'[m] = out[m]
  BY <1>4, <1>5
<1>7. Handed' = Handed \union {c}
  <2>1. \A m : m \in 1..(Len(out) + 1) <=> m \in 1..Len(out) \/ m = Len(out) + 1 BY <1>6
  <2> QED BY <1>6, <2>1 DEF Handed
<1>8. Pending(c) BY <1>1, <1>2 DEF Pending, Through, c
<1>9. c \notin Handed BY <1>1, <1>2, <1>8 DEF Progress
<1>10. Described' = Described /\ Consumer' = Consumer BY SameInput
<1>11. NoDuplicates'
  <2>1. \A m \in DOMAIN out : out[m] # c BY <1>9 DEF Handed
  <2>2. \A m \in DOMAIN out' : m \in DOMAIN out \/ (m = Len(out) + 1 /\ out'[m] = c) BY <1>6
  <2>3. \A m \in DOMAIN out : out'[m] = out[m] BY <1>6
  <2> QED BY <1>1, <1>2, <1>10, <2>1, <2>2, <2>3 DEF NoDuplicates
<1>12. PICK a \in {"more", "stop"} : Answer(Consumer, a) BY DEF Consume
<1>13. level' = Consumer - 1 /\ answer' = a BY <1>12 DEF Answer
<1>14. CASE a = "stop"
  <2>1. Consumer \in stopped' /\ level' # Consumer BY <1>1, <1>12, <1>13, <1>14 DEF Answer
  <2> QED BY <1>10, <1>11, <2>1 DEF Live, Over
<1>15. CASE a = "more"
  <2>1. Live' BY <1>4, <1>12, <1>15 DEF Answer, LiveInv, Live
  <2>2. Chain' /\ \A d : Pending(d)' <=> \E j \in 1..(Consumer - 1) : Later(j, d)
    BY <1>1, <1>4, <1>13, <1>15, ChainShortens
  <2>3. \A d \in Described : Through(Consumer, d) => d = c
    <3> SUFFICES ASSUME NEW d \in Described, Through(Consumer, d) PROVE d = c OBVIOUS
    <3>1. /\ c \in [1..Depth(Consumer) -> Node] /\ d \in [1..Depth(Consumer) -> Node]
      BY <1>1, <1>2, PartialIsDescribed DEF Partial, InputOK
    <3>2. \A k \in 1..Depth(Consumer) : d[k] = c[k] BY DEF Through, c
    <3> DEFINE n == Depth(Consumer)
    <3> HIDE DEF n
    <3>3. c \in [1..n -> Node] /\ d \in [1..n -> Node] /\ \A k \in 1..n : d[k] = c[k]
      BY <3>1, <3>2 DEF n
    <3>4. d = [k \in 1..n |-> d[k]] /\ c = [k \in 1..n |-> c[k]] BY <3>3
    <3>5. [k \in 1..n |-> d[k]] = [k \in 1..n |-> c[k]] BY <3>3
    <3> QED BY <3>4, <3>5
  <2>4. \A j \in 1..(Consumer - 1) : ~Later(j, c)
    <3> SUFFICES ASSUME NEW j \in 1..(Consumer - 1), IsExpand(j)
                 PROVE  c[Depth(j) + 1] \notin todo[j]
      BY DEF Later
    <3>1. j \in 1..level /\ Consumer \in 1..level /\ j < Consumer BY <1>1
    <3> QED BY <1>1, <3>1 DEF Chain, c
  <2>5. \A d \in Described : Pending(d) <=> (\E j \in 1..(Consumer - 1) : Later(j, d)) \/ d = c
    BY <1>1, <1>2, <1>8, <2>3 DEF Pending
  <2>6. Progress'
    <3> SUFFICES ASSUME NEW d \in Described PROVE d \in Handed' <=> ~Pending(d)'
      BY <1>10 DEF Progress
    <3>1. d \in Handed <=> ~Pending(d) BY <1>1 DEF Progress
    <3> QED BY <1>7, <2>2, <2>4, <2>5, <3>1
  <2> QED BY <1>11, <2>1, <2>2, <2>6
<1> QED BY <1>14, <1>15

-------------------------------------------------------------------------------
(* After a failure or a stop *)

OverInv == Inv /\ ~Live /\ ~panicked

\* The consumer gets no path any more: a stage hands the failure on to it, or
\* it is not called again.
LEMMA OverStage ==
  ASSUME OverInv, UNCHANGED input, NEW i \in Stage, StageStep(i)
  PROVE  ~Live' /\ Over'
<1>1. /\ level = i /\ Consumer' = Consumer /\ Consumer \in Nat /\ i \in Nat /\ i < Consumer
      /\ InputOK /\ at \in [1..Consumer -> Elements \union {Failure}]
      /\ i + 1 \in 1..Consumer
  BY SameInput, ArrayFacts DEF StageStep, OverInv, Inv, InputOK, Stage, Consumer, TypeOK
<1>2. \/ Consumer \in stopped /\ level # Consumer
      \/ stopped = {} /\ answer = "call" /\ at[i] = Failure
  BY <1>1 DEF OverInv, Inv, Over
<1>3. (failed => failed') /\ stopped \subseteq stopped'
  BY DEF StageStep, StartFetch, Visit, Exhausted, Aborted, Restrict, Restricted, Fail, PassFailure, Answer
<1>4. ~Live' BY <1>3 DEF OverInv, Live
<1>5. CASE Consumer \in stopped
  <2>1. i + 1 = Consumer => i + 1 \in stopped BY <1>5
  <2>2. \A e : Call(i + 1, e) => panicked' \/ level' # Consumer
    BY <1>1, <2>1 DEF Call
  <2>3. \A a : Answer(i, a) => level' # Consumer BY <1>1 DEF Answer
  <2>4. panicked' \/ level' # Consumer
    <3>1. CASE StartFetch(i) BY <1>1, <3>1 DEF StartFetch
    <3>2. CASE Visit(i) BY <2>2, <3>2 DEF Visit
    <3>3. CASE Exhausted(i) \/ Aborted(i) BY <2>3, <3>3 DEF Exhausted, Aborted
    <3>4. CASE Restrict(i) \/ Restricted(i) BY <2>2, <2>3, <3>4 DEF Restrict, Restricted
    <3>5. CASE Fail(i) BY <1>1, <2>1, <3>5 DEF Fail
    <3>6. CASE PassFailure(i) BY <2>2, <2>3, <3>6 DEF PassFailure
    <3> QED BY <3>1, <3>2, <3>3, <3>4, <3>5, <3>6 DEF StageStep
  <2> QED BY <1>1, <1>3, <1>4, <1>5, <2>4 DEF Over
<1>6. CASE Consumer \notin stopped
  <2>1. stopped = {} /\ answer = "call" /\ at[i] = Failure BY <1>2, <1>6
  <2>2. PassFailure(i)
    BY <2>1 DEF StageStep, StartFetch, Visit, Exhausted, Aborted, Restrict, Restricted, Fail
  <2>3. Call(i + 1, Failure) /\ UNCHANGED stopped BY <2>1, <2>2 DEF PassFailure
  <2>4. level' = i + 1 /\ answer' = "call" /\ at' = [at EXCEPT ![i + 1] = Failure]
    BY <2>1, <2>3 DEF Call
  <2>5. at'[i + 1] = Failure /\ i + 1 > 0 BY <1>1, <2>4
  <2> QED BY <1>4, <2>1, <2>3, <2>4, <2>5 DEF Over
<1> QED BY <1>5, <1>6

\* The failure reaches the consumer.
LEMMA OverConsume ==
  ASSUME OverInv, UNCHANGED input, Consume
  PROVE  ~Live' /\ Over' /\ out' = out
<1>1. /\ level = Consumer /\ Consumer' = Consumer /\ Consumer \in Nat
  BY SameInput, ArrayFacts DEF Consume, OverInv, Inv, InputOK
<1>2. stopped = {} /\ at[Consumer] = Failure BY <1>1 DEF OverInv, Inv, Over
<1>3. out' = out /\ Answer(Consumer, "stop") /\ failed' = failed BY <1>2 DEF Consume
<1>4. Consumer \in stopped' /\ level' # Consumer' BY <1>1, <1>3 DEF Answer
<1> QED BY <1>1, <1>3, <1>4 DEF Live, Over

-------------------------------------------------------------------------------
(* Every step *)

\* Before the first step every described path is still to come.
LEMMA InitInv == Init => Inv
<1> SUFFICES ASSUME Init PROVE Inv OBVIOUS
<1>1. InputOK BY PathsAssumption DEF Init, InputOK
<1>2. Consumer \in Nat /\ Consumer > 1 /\ Hops \in Nat /\ Depth(1) = 0
  BY <1>1, ArrayFacts, DepthFacts DEF InputOK
<1>3. /\ level = 1 /\ answer = "call" /\ at = [i \in 1..Consumer |-> <<>>]
      /\ todo = [i \in Stage |-> {}] /\ stopped = {} /\ out = <<>>
      /\ failed = FALSE /\ panicked = FALSE
  BY DEF Init
<1>4. <<>> \in [1..0 -> Node] /\ <<>> \in Elements
  <2>1. <<>> \in [1..0 -> Node] OBVIOUS
  <2>2. 0 \in 0..(Hops + 1) BY <1>2
  <2> QED BY <2>1, <2>2 DEF Elements
<1>5. at[1] = <<>> BY <1>2, <1>3
<1>6. TypeOK
  <2>1. at \in [1..Consumer -> Elements \union {Failure}] BY <1>3, <1>4
  <2>2. out \in Seq(Elements) BY <1>3
  <2>3. todo \in [Stage -> SUBSET Node] BY <1>3
  <2>4. level \in 0..Consumer /\ stopped \subseteq 1..Consumer BY <1>2, <1>3
  <2>5. array \in Arrays BY <1>1 DEF InputOK
  <2> QED BY <1>3, <2>1, <2>2, <2>3, <2>4, <2>5 DEF TypeOK
<1>7. \A i \in 1..level : i = 1 BY <1>3
<1>8. Bodies BY <1>2, <1>4, <1>5, <1>7 DEF Bodies
<1>9. Partial(1, at[1]) BY <1>2, <1>4, <1>5 DEF Partial
<1>10. Chain
  <2>1. \A i \in 1..level : ~Open(i) BY <1>3, <1>7 DEF Open
  <2> QED BY <1>2, <1>3, <1>7, <1>9, <2>1 DEF Chain
<1>11. Handed = {} BY <1>3 DEF Handed
<1>12. \A d : Pending(d) BY <1>2, <1>3 DEF Pending, Through
<1>13. NoDuplicates BY <1>3 DEF NoDuplicates
<1> QED BY <1>1, <1>3, <1>6, <1>8, <1>10, <1>11, <1>12, <1>13 DEF Inv, Live, Progress

\* Who stops, stops because the consumer has.
LEMMA StopsFromConsumer ==
  ASSUME Inv, ~panicked, UNCHANGED input, Consume \/ \E i \in Stage : StageStep(i)
  PROVE  stopped' = {} \/ Consumer' \in stopped'
<1>1. Consumer' = Consumer BY SameInput
<1>2. CASE Consumer \in stopped
  <2>1. stopped \subseteq stopped'
    BY DEF Consume, StageStep, StartFetch, Visit, Exhausted, Aborted, Restrict, Restricted, Fail, PassFailure, Answer
  <2> QED BY <1>1, <1>2, <2>1
<1>3. CASE Consume BY <1>1, <1>3 DEF Consume, Answer, Inv
<1>4. ASSUME Consumer \notin stopped, NEW i \in Stage, StageStep(i) PROVE stopped' = {}
  <2>1. stopped = {} /\ level = i BY <1>4 DEF Inv, StageStep
  <2>2. answer # "stop"
    <3>1. CASE Live BY <3>1 DEF Inv, Chain
    <3>2. CASE ~Live BY <1>4, <3>2 DEF Inv, Over
    <3> QED BY <3>1, <3>2
  <2>3. at[i] = Failure => answer = "call"
    <3>1. CASE Live BY <2>1, <3>1, LiveFacts DEF LiveInv
    <3>2. CASE ~Live BY <1>4, <3>2 DEF Inv, Over
    <3> QED BY <3>1, <3>2
  <2> QED BY <1>4, <2>1, <2>2, <2>3 DEF StageStep, StartFetch, Visit, Exhausted, Aborted, Restrict,
          Restricted, Fail, PassFailure, Answer, Unrelated
<1> QED BY <1>2, <1>3, <1>4

\* The invariant is inductive.
LEMMA NextInv == Inv /\ [Next]_vars => Inv'
<1> SUFFICES ASSUME Inv, [Next]_vars PROVE Inv' OBVIOUS
<1>1. CASE UNCHANGED vars
  <2>1. UNCHANGED input /\ UNCHANGED <<level, answer, at, todo, stopped, out, failed, panicked>>
    BY <1>1 DEF vars
  <2>2. TypeOK' BY <2>1, SameInput DEF Inv, TypeOK, input
  <2>3. InputOK' BY <2>1 DEF Inv, InputOK, input
  <2>4. Bodies' BY <2>1 DEF Inv, Bodies, Depth
  <2>5. NoDuplicates' BY <2>1, SameInput DEF Inv, NoDuplicates
  <2>6. (stopped = {} \/ Consumer \in stopped)' BY <2>1, SameInput DEF Inv
  <2>7. Live' <=> Live BY <2>1 DEF Live
  <2>8. /\ level' = level /\ answer' = answer /\ at' = at /\ todo' = todo
        /\ typed' = typed /\ edges' = edges /\ array' = array
    BY <2>1 DEF input
  <2>9. Chain => Chain'
    <3>1. \A i, e : (Partial(i, e)' <=> Partial(i, e)) /\ Objects(i, e)' = Objects(i, e)
      BY <2>1, SameInput
    <3>2. \A i, d : Through(i, d)' <=> Through(i, d) BY <2>8 DEF Through
    <3>3. \A i : Open(i)' <=> Open(i) BY <2>8 DEF Open
    <3>4. Consumer' = Consumer BY <2>1, SameInput
    <3> SUFFICES ASSUME Chain PROVE Chain' OBVIOUS
    <3>5. \A i \in 1..level : Partial(i, at[i])' /\ (IsExpand(i) /\ Open(i)' => todo'[i] \subseteq Objects(i, at[i])')
      BY <2>8, <3>1, <3>3 DEF Chain
    <3>6. \A i, j \in 1..level : i < j => Through(i, at[j])'
      BY <2>8, <3>2 DEF Chain, Through
    <3> QED BY <2>8, <3>4, <3>5, <3>6 DEF Chain
  <2>10. \A d : Pending(d)' <=> Pending(d) BY <2>8, SameInput DEF Pending, Through, Later, Depth, IsExpand
  <2>11. Progress => Progress' BY <2>1, <2>10, SameInput DEF Progress, Handed
  <2>12. Over => Over' BY <2>1, SameInput DEF Over
  <2> QED BY <2>2, <2>3, <2>4, <2>5, <2>6, <2>7, <2>9, <2>11, <2>12 DEF Inv
<1>2. CASE ~panicked /\ UNCHANGED input /\ Consume
  <2>1. Typed' BY <1>2, ConsumeTyped DEF Inv, Typed
  <2>2. stopped' = {} \/ Consumer' \in stopped' BY <1>2, StopsFromConsumer
  <2>3. CASE Live BY <1>2, <2>1, <2>2, <2>3, ConsumeLive DEF Inv, LiveInv, Typed
  <2>4. CASE ~Live
    <3>1. ~Live' /\ Over' /\ out' = out BY <1>2, <2>4, OverConsume DEF OverInv
    <3>2. NoDuplicates' BY <1>2, <3>1, SameInput DEF Inv, NoDuplicates
    <3> QED BY <2>1, <2>2, <3>1, <3>2 DEF Inv, Typed
  <2> QED BY <2>3, <2>4
<1>3. ASSUME ~panicked, UNCHANGED input, NEW i \in Stage, StageStep(i) PROVE Inv'
  <2>1. Typed' BY <1>3, StageTyped DEF Inv, Typed
  <2>2. stopped' = {} \/ Consumer' \in stopped' BY <1>3, StopsFromConsumer
  <2>3. NoDuplicates' BY <1>3, SameInput DEF Inv, NoDuplicates, StageStep
  <2>4. CASE Live BY <1>3, <2>1, <2>2, <2>3, <2>4, StageLive DEF Inv, LiveInv, Typed
  <2>5. CASE ~Live BY <1>3, <2>1, <2>2, <2>3, <2>5, OverStage DEF Inv, OverInv, Typed
  <2> QED BY <2>4, <2>5
<1> QED BY <1>1, <1>2, <1>3 DEF Next, Ended

\* At any point of the iteration the consumer has the described paths that are
\* not still to come from a Fetch on the stack, each of them once; and nothing
\* is handed on once the consumer has left its loop or a Fetch has failed
\* (PathsStarting, expand, restrict and Paths in paths.go).
THEOREM InductiveInvariant == Spec => []Inv
BY InitInv, NextInv, PTL DEF Spec

\* Type correctness of the iterators: the body of a stage is called with an
\* element of as many nodes as the stages before it have added.
THEOREM TypeCorrect == Spec => []TypeOK
<1>1. Inv => TypeOK BY DEF Inv
<1> QED BY <1>1, InductiveInvariant, PTL

\* Whatever the graph and the path array are, the consumer gets described paths
\* only, none twice, and all of them if it does not leave its loop and nothing
\* fails (extractPath and the loop over Paths in Context.Store).
THEOREM IterationIsExact == Spec => []PathsAreExact
<1>1. Inv => PathsAreExact
  <2> SUFFICES ASSUME Inv PROVE PathsAreExact OBVIOUS
  <2>1. ASSUME level = 0, ~failed, Consumer \notin stopped PROVE Handed = Described
    <3>1. Live BY <2>1 DEF Inv, Live
    <3>2. \A d \in Described : d \in Handed <=> ~Pending(d) BY <3>1 DEF Inv, Progress
    <3>3. \A d : ~Pending(d) BY <2>1 DEF Pending
    <3>4. Handed \subseteq Described BY DEF Inv, NoDuplicates, Handed
    <3> QED BY <3>2, <3>3, <3>4
  <2> QED BY <2>1 DEF Inv, NoDuplicates, PathsAreExact, Handed
<1> QED BY <1>1, InductiveInvariant, PTL
===============================================================================
