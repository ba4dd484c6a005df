-------------------------------- MODULE MCIMap --------------------------------
(***************************************************************************)
(* IMap on three labels: enough for a class of two to be identified with   *)
(* a third label in either direction, fresh or known.                      *)
(***************************************************************************)
EXTENDS IMap
CONSTANTS n1, n2, n3
MCLabel == {n1, n2, n3}
===============================================================================
