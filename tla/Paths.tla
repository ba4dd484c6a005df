-------------------------------- MODULE Paths --------------------------------
(***************************************************************************)
(* Walking the paths of a pathbuilder through the finished index: igraph's *)
(* Paths (internal/triplestore/igraph/paths.go) as extractPath             *)
(* (internal/sparkl/context.go) builds it from a path array of class,      *)
(* predicate, class, predicate ...  Every element of the array is a stage, *)
(* an iterator that ranges over the stage before it: its loop body is      *)
(* called with an element, calls the body of the next stage for what it    *)
(* yields, and answers whether it wants more.                              *)
(***************************************************************************)
EXTENDS Naturals, Sequences, FiniteSets

CONSTANTS Node,      \* ids, which are numbers
          Class, Predicate,
          Arrays,    \* the path arrays explored
          MaxWant,   \* bound on the elements a consumer takes before it stops
          Failure,   \* the element that carries an error
          CanFail    \* reading the index may fail: it is on disk

ASSUME PathsAssumption ==
    /\ CanFail \in BOOLEAN /\ MaxWant \in Nat
    /\ Node \subseteq Nat /\ IsFiniteSet(Node)
    /\ Arrays \subseteq Seq(Class \union Predicate)
    /\ \A a \in Arrays : Len(a) > 0 /\ \A i \in DOMAIN a : a[i] \in IF i % 2 = 1 THEN Class ELSE Predicate
    /\ Failure \notin Seq(Node)

VARIABLES array, typed, edges,  \* the input: the nodes of a class, the edges of a predicate
          want,      \* the consumer stops after this many elements
          level,     \* the stage that has control; 0 when the iteration is over
          answer,    \* "call": its body was called; else what the next stage answered
          at,        \* stage -> the element its body was called with
          todo,      \* stage -> the nodes Fetch still has to visit
          stopped,   \* stages whose body has answered that it wants no more
          out,       \* the paths the consumer got
          failed,    \* a Fetch or Has failed
          panicked   \* a body was called after it had answered "stop"

input == <<array, typed, edges, want>>
vars == <<input, level, answer, at, todo, stopped, out, failed, panicked>>

Stage == 1..Len(array)
Consumer == Len(array) + 1
IsExpand(i) == i = 1 \/ i % 2 = 0

\* The predicates of the array; a path has a node more.
Hops == Len(array) \div 2
Elements == UNION {[1..n -> Node] : n \in 0..(Hops + 1)}

TypeOK ==
    /\ array \in Arrays
    /\ level \in 0..Consumer
    /\ answer \in {"call", "more", "stop"}
    /\ at \in [1..Consumer -> Elements \union {Failure}]
    /\ todo \in [Stage -> SUBSET Node]
    /\ stopped \subseteq 1..Consumer
    /\ out \in Seq(Elements)
    /\ failed \in BOOLEAN /\ panicked \in BOOLEAN

Init ==
    /\ array \in Arrays
    /\ typed \in [Class -> SUBSET Node]
    /\ edges \in [Predicate -> SUBSET (Node \X Node)]
    /\ want \in 1..MaxWant
    /\ level = 1 /\ answer = "call"
    /\ at = [i \in 1..Consumer |-> <<>>]
    /\ todo = [i \in Stage |-> {}]
    /\ stopped = {} /\ out = <<>>
    /\ failed = FALSE /\ panicked = FALSE

-------------------------------------------------------------------------------
\* yield: the body of stage i is called with element e; Go's range loops panic
\* when the body has left the loop already.
Call(i, e) ==
    IF i \in stopped
    THEN panicked' = TRUE /\ UNCHANGED <<level, answer, at>>
    ELSE /\ level' = i /\ answer' = "call"
         /\ at' = [at EXCEPT ![i] = e]
         /\ UNCHANGED panicked

\* The body of stage i answers; stage 1 has no loop around it.
Answer(i, a) ==
    /\ level' = i - 1 /\ answer' = a
    /\ stopped' = IF a = "stop" THEN stopped \union {i} ELSE stopped
    /\ UNCHANGED <<at, panicked>>

Last(e) == e[Len(e)]

\* The nodes Fetch visits: all of a class, or those an edge leads to.
Objects(i, e) ==
    IF i = 1 THEN typed[array[1]] ELSE {n \in Node : <<Last(e), n>> \in edges[array[i]]}

\* PathsStarting and expand: Fetch is called for the element.
StartFetch(i) ==
    /\ IsExpand(i) /\ answer = "call" /\ at[i] # Failure
    /\ todo' = [todo EXCEPT ![i] = Objects(i, at[i])]
    /\ answer' = "more"
    /\ UNCHANGED <<level, at, stopped, panicked, failed>>

\* Mutant of Left: Fetch starts from the first key again.
Left_Rewound(i, n) == Objects(i, at[i])

\* The keys after n, in ascending order.
Left(i, n) == todo[i] \ {n}

\* Fetch visits the next node, in ascending order, and yields it.
Visit(i) ==
    /\ IsExpand(i) /\ answer = "more" /\ at[i] # Failure
    /\ \E n \in todo[i] : /\ \A m \in todo[i] : n =< m
                          /\ todo' = [todo EXCEPT ![i] = Left(i, n)]
                          /\ Call(i + 1, Append(at[i], n))
    /\ UNCHANGED <<stopped, failed>>

Exhausted(i) ==
    /\ IsExpand(i) /\ answer = "more" /\ at[i] # Failure
    /\ todo[i] = {}
    /\ Answer(i, "more")
    /\ UNCHANGED <<todo, failed>>

\* The next stage wants no more: Fetch is aborted with errAborted, which is not
\* a "real" error, and the body comes to its end as if nothing had happened.
Aborted(i) ==
    /\ IsExpand(i) /\ answer = "stop" /\ at[i] # Failure
    /\ todo' = [todo EXCEPT ![i] = {}]
    /\ Answer(i, "more")
    /\ UNCHANGED failed

\* Mutant of Unrelated: the first node that is not in the class ends the loop.
Unrelated_Ends == "stop"

\* The answer for a node that is not in the class.
Unrelated == "more"

\* Mutant of Kept: the element becomes a step of its own path.
Kept_Twice(i) == Append(at[i], Last(at[i]))

Kept(i) == at[i]

\* restrict: Has decides whether the element is passed on.
Restrict(i) ==
    /\ ~IsExpand(i) /\ answer = "call" /\ at[i] # Failure
    /\ IF Last(at[i]) \in typed[array[i]]
       THEN Call(i + 1, Kept(i)) /\ UNCHANGED stopped
       ELSE Answer(i, Unrelated)
    /\ UNCHANGED <<todo, failed>>

Restricted(i) ==
    /\ ~IsExpand(i) /\ answer # "call" /\ at[i] # Failure
    /\ Answer(i, answer)
    /\ UNCHANGED <<todo, failed>>

\* Fetch or Has fails: the error is yielded and the body leaves its loop.
Fail(i) ==
    /\ CanFail /\ ~failed /\ at[i] # Failure
    /\ IF IsExpand(i) THEN answer = "more" ELSE answer = "call"
    /\ failed' = TRUE
    /\ IF i + 1 \in stopped
       THEN panicked' = TRUE /\ UNCHANGED <<level, answer, at>>
       ELSE /\ level' = i + 1 /\ answer' = "call"
            /\ at' = [at EXCEPT ![i] = Failure, ![i + 1] = Failure]
            /\ UNCHANGED panicked
    /\ UNCHANGED <<todo, stopped>>

\* A body that was called with an error passes it on, and leaves its loop.
PassFailure(i) ==
    /\ at[i] = Failure
    /\ IF answer = "call" THEN Call(i + 1, Failure) /\ UNCHANGED stopped ELSE Answer(i, "stop")
    /\ UNCHANGED <<todo, failed>>

\* Paths.Paths and the loop over it: the consumer leaves on an error, or when
\* it has what it wants (Context.Store leaves when storage.Add fails).
Consume ==
    /\ level = Consumer
    /\ out' = IF at[Consumer] = Failure THEN out ELSE Append(out, at[Consumer])
    /\ Answer(Consumer, IF at[Consumer] = Failure \/ Len(out') = want THEN "stop" ELSE "more")
    /\ UNCHANGED <<todo, failed>>

StageStep(i) ==
    /\ level = i
    /\ \/ StartFetch(i) \/ Visit(i) \/ Exhausted(i) \/ Aborted(i)
       \/ Restrict(i) \/ Restricted(i) \/ Fail(i) \/ PassFailure(i)
    /\ UNCHANGED out

Ended == (level = 0 \/ panicked) /\ UNCHANGED vars
Next ==
    \/ /\ ~panicked
       /\ Consume \/ \E i \in Stage : StageStep(i)
       /\ UNCHANGED input
    \/ Ended

Spec == Init /\ [][Next]_vars /\ WF_vars(Next)

-------------------------------------------------------------------------------
\* The paths the array describes: sequences of nodes, one for the first class
\* and one per predicate, each typed as the classes say.
Described ==
    {e \in [1..(Hops + 1) -> Node] :
        /\ \A i \in 1..Hops : <<e[i], e[i + 1]>> \in edges[array[2 * i]]
        /\ \A i \in 1..(Hops + 1) : 2 * i - 1 \in DOMAIN array => e[i] \in typed[array[2 * i - 1]]}

\* However an iteration ends, what it yielded is described, and nothing comes
\* twice; and one nobody stops and in which nothing fails yields all: what
\* Context.Store adds to a bundle is what the pathbuilder asks for.
PathsAreExact ==
    /\ \A i, j \in DOMAIN out : out[i] \in Described /\ (out[i] = out[j] => i = j)
    /\ level = 0 /\ ~failed /\ Consumer \notin stopped =>
        {out[i] : i \in DOMAIN out} = Described

\* The iteration ends, also through cycles of the graph.
Terminates == <>(level = 0 \/ panicked)

\* context.go:141: "Any error that occurs is returned only by Wait": it cannot
\* when the loop that met the error panics.
StopIsRespected == ~panicked
===============================================================================
