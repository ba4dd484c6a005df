------------------------------ MODULE MCMakeIndex ------------------------------
(***************************************************************************)
(* MakeIndex on every input of up to MaxTokens tokens drawn from a small   *)
(* pool: identities between nodes and between predicates, an inverse, the  *)
(* same triple through aliases and through its inverse, and a datum.       *)
(***************************************************************************)
EXTENDS MakeIndex
CONSTANTS n1, n2, e1, e2, e3, same, inv, g1, g2, MaxTokens

MCLabel == {n1, n2, e1, e2, e3, same, inv}
T(s, pr, o, gr) == [s |-> s, p |-> pr, o |-> o, g |-> gr]
Pool == { T(n1, same, n2, g1), T(n2, same, n1, g1), T(e1, same, e3, g1),
          T(e1, inv, e2, g1), T(e2, inv, e1, g2), T(e1, inv, e3, g1),
          T(n1, e1, n2, g1), T(n1, e1, n2, g2), T(n2, e2, n1, g1), T(n1, e3, n1, g1), T(n2, e3, n1, g1),
          T(n1, e1, Datum, g1), T(n2, e1, Datum, g1) }
\* Four tokens of a smaller pool: identity, inverse, triple and its double.
Core == { T(n1, same, n2, g1), T(e1, same, e3, g1), T(e1, inv, e2, g1),
          T(n1, e1, n2, g1), T(n2, e2, n1, g2), T(n2, e3, n1, g1), T(n1, e1, Datum, g1) }
MCDeepInputs == [1..4 -> Core]
MCInputs == UNION {[1..n -> Pool] : n \in 0..MaxTokens} \union MCDeepInputs
Unmasked == [predicates |-> NoMask, data |-> NoMask]
\* Both directions of a predicate, and one statement with the first.
InverseInputs == {<<T(e1, inv, e2, g1), T(n1, e1, n2, g1)>>}
OnlySecond == {[predicates |-> {e2}, data |-> {}]}
MCSameAs == {same}
MCInverseOf == {inv}
MCMasks == {Unmasked, [predicates |-> {e1, e3}, data |-> {e1}]}
===============================================================================
