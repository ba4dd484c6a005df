------------------------------- MODULE MCPaths -------------------------------
(***************************************************************************)
(* Paths through every graph of two nodes with one predicate.     *)
(***************************************************************************)
EXTENDS Paths
CONSTANTS k1, k2, e1

MCArrays == { <<k1>>, <<k1, e1>>, <<k1, e1, k2>>, <<k1, e1, k2, e1>> }
===============================================================================
