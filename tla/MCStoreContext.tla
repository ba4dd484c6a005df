---------------------------- MODULE MCStoreContext ----------------------------
(***************************************************************************)
(* StoreContext on two roots, one of them with two children, the first of  *)
(* which has a field; and on a chain of a root, its child and a child of   *)
(* that.                                                                   *)
(***************************************************************************)
EXTENDS StoreContext
CONSTANTS r1, r2, c1, c2

MCBundle == {r1, r2, c1, c2}
MCRoots == <<r1, r2>>
MCChildren == [b \in MCBundle |-> IF b = r1 THEN <<c1, c2>> ELSE <<>>]
MCFields == [b \in MCBundle |-> IF b = c1 THEN 1 ELSE 0]

MCChainBundle == {r1, c1, c2}
MCChainRoots == <<r1>>
MCChain == [b \in MCChainBundle |-> CASE b = r1 -> <<c1>> [] b = c1 -> <<c2>> [] b = c2 -> <<>>]
MCChainFields == [b \in MCChainBundle |-> 1]
===============================================================================
