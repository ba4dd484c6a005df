--------------------------------- MODULE IMap ---------------------------------
(***************************************************************************)
(* The life of one imap.IMap: Reset, the mutating calls, Finalize, Close,  *)
(* and storage errors in the middle of a call.  Mutating calls are made by *)
(* one goroutine ("any operations which change internal state are not safe *)
(* to access concurrently", imap.go:21), so each call is one step.         *)
(***************************************************************************)
EXTENDS LabelMap

VARIABLES forward,    \* label -> canonical and literal id
          reverse,    \* literal id -> label
          id,         \* last id handed out
          finalized,
          open,       \* forward and reverse hold usable storages
          failed,     \* a mutating call returned an error
          identified  \* history: the sets {same, old} of successful MarkIdentical calls

vars == <<forward, reverse, id, finalized, open, failed, identified>>

mp == [forward |-> forward, reverse |-> reverse, id |-> id]

Become(m) == forward' = m.forward /\ reverse' = m.reverse /\ id' = m.id

TypeOK ==
    /\ mp \in MapValue
    /\ finalized \in BOOLEAN /\ open \in BOOLEAN /\ failed \in BOOLEAN
    /\ identified \subseteq SUBSET Label

\* The zero IMap.
Init ==
    /\ forward = EmptyMap.forward
    /\ reverse = EmptyMap.reverse
    /\ id = EmptyMap.id
    /\ finalized = FALSE
    /\ open = FALSE
    /\ failed = FALSE
    /\ identified = {}

\* Reset closes what is open and starts with two fresh storages.
Reset ==
    /\ Become(EmptyMap)
    /\ finalized' = FALSE
    /\ open' = TRUE
    /\ failed' = FALSE
    /\ identified' = {}

\* One of the two storages cannot be opened: the other is closed again, and
\* neither id nor finalized is touched.
ResetFails ==
    /\ forward' = EmptyMap.forward
    /\ reverse' = EmptyMap.reverse
    /\ open' = FALSE
    /\ failed' = TRUE
    /\ identified' = {}
    /\ UNCHANGED <<id, finalized>>

Close ==
    /\ forward' = EmptyMap.forward
    /\ reverse' = EmptyMap.reverse
    /\ open' = FALSE
    /\ identified' = {}
    /\ UNCHANGED <<id, finalized, failed>>

\* A call that changes the map: the storages are there, Finalize has not been
\* called, and the caller has not seen an error (MakeIndex closes the index on
\* the first one, sparkl/index.go:58-140).
CanMutate == open /\ ~finalized /\ ~failed

\* Next hands out an id without looking at finalized.
NextDataID ==
    /\ open /\ ~failed
    /\ id < MaxID
    /\ Become(NextID(mp))
    /\ UNCHANGED <<finalized, open, failed, identified>>

\* Mutant of Add: the overflow check of ID.Inc is dropped.
Add_NoOverflowCheck(l) ==
    /\ CanMutate
    /\ Become(AddNew(mp, l))
    /\ UNCHANGED <<finalized, open, failed, identified>>

\* Inc panics when the ids are used up; a call that would panic is not taken.
Add(l) ==
    /\ CanMutate
    /\ Has(mp, l) \/ id < MaxID
    /\ Become(AddNew(mp, l))
    /\ UNCHANGED <<finalized, open, failed, identified>>

\* forward.Set fails, or it succeeds and reverse.Set fails.
AddFails(l) ==
    /\ CanMutate
    /\ ~Has(mp, l) /\ id < MaxID
    /\ id' = id + 1
    /\ forward' \in {forward, AddNew(mp, l).forward}
    /\ failed' = TRUE
    /\ UNCHANGED <<reverse, finalized, open, identified>>

Identify(same, old) ==
    /\ CanMutate
    /\ (Has(mp, same) /\ Has(mp, old)) \/ id + 1 < MaxID
    /\ Become(MarkIdentical(mp, same, old))
    /\ identified' = identified \union {{same, old}}
    /\ UNCHANGED <<finalized, open, failed>>

\* The iteration over forward stops at an error: some labels are redirected.
IdentifyFails(same, old) ==
    /\ CanMutate
    /\ (Has(mp, same) /\ Has(mp, old)) \/ id + 1 < MaxID
    /\ LET b == BothAdded(mp, same, old)
       IN  \E ls \in SUBSET Touched(mp, same, old) :
             /\ ls # Touched(mp, same, old)
             /\ Become(Redirect(b, ls, Forward(b, same)))
    /\ failed' = TRUE
    /\ UNCHANGED <<finalized, open, identified>>

\* A second call answers ErrFinalized and changes nothing.
Finalize ==
    /\ open /\ ~finalized /\ ~failed
    /\ finalized' = TRUE
    /\ UNCHANGED <<forward, reverse, id, open, failed, identified>>

Next ==
    \/ Reset \/ ResetFails \/ Close \/ NextDataID \/ Finalize
    \/ \E l \in Label : Add(l) \/ AddFails(l)
    \/ \E same, old \in Label : Identify(same, old) \/ IdentifyFails(same, old)

Spec == Init /\ [][Next]_vars

-------------------------------------------------------------------------------
\* Every reverse entry is the literal id of its label, even after a storage
\* error, and as long as no call failed every interned label has its entry:
\* Triple() (igraph/index.go:71-118) relies on both when it turns ids back
\* into the labels of the input.
ReverseInvertsLiteral ==
    /\ \A i \in ID : reverse[i] # NoLabel => forward[reverse[i]].literal = i
    /\ ~failed => \A l \in Label : Has(mp, l) => Reverse(mp, forward[l].literal) = l

\* The canonical id of a label is the literal id of a label that is its own
\* representative, so that one lookup (sparkl/cache.go:136-145) is enough and
\* IdentityMap never sends a label to one that is itself an alias.
CanonicalIsFixpoint ==
    ~failed => \A l \in Label : Has(mp, l) =>
        LET r == Representative(mp, l)
        IN  /\ r \in Label
            /\ forward[r].literal = Forward(mp, l)
            /\ forward[r].canonical = Forward(mp, l)

\* Two labels share a canonical id exactly when the MarkIdentical calls made
\* so far force it: the classes are the least equivalence that contains every
\* pair that was marked (imap.go:206-267), whatever the order of the calls and
\* whether a label was fresh or already had aliases.
IsEquivalence(E) ==
    /\ \A a \in Label : <<a, a>> \in E
    /\ \A a, b \in Label : <<a, b>> \in E => <<b, a>> \in E
    /\ \A a, b, c \in Label : <<a, b>> \in E /\ <<b, c>> \in E => <<a, c>> \in E
Equivalences == {E \in SUBSET (Label \X Label) : IsEquivalence(E)}
Relates(E, marks) == \A s \in marks : \A a, b \in s : <<a, b>> \in E

SameID(m, a, b) == Has(m, a) /\ Has(m, b) /\ Forward(m, a) = Forward(m, b)

IsClosureOf(m, marks) ==
    /\ \A s \in marks : \A a, b \in s : SameID(m, a, b)
    /\ \A E \in Equivalences : Relates(E, marks) =>
          \A a, b \in Label : SameID(m, a, b) => <<a, b>> \in E

IdentityIsClosure == ~failed => IsClosureOf(mp, identified)

\* A label keeps its literal id for as long as the storages live: triples that
\* were stored under it (igraph/index.go:289-296) still resolve to the label
\* they were read with, whatever is identified later.
LiteralIsStable ==
    [][(open /\ open' /\ ~Reset) =>
         \A l \in Label : Has(mp, l) => forward'[l].literal = forward[l].literal]_vars

-------------------------------------------------------------------------------
\* The map implements the partition of labels it is documented to be; a map
\* one of whose calls failed promises nothing more until it is Reset.
rep == IF failed THEN [l \in Label |-> NoLabel]
                 ELSE [l \in Label |-> Representative(mp, l)]

P == INSTANCE LabelPartition WITH rep <- rep
ImplementsPartition == P!Spec
===============================================================================
