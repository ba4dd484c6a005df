------------------------------ MODULE MCStorages ------------------------------
(***************************************************************************)
(* Storages with two URIs that can be reached through one parent or the    *)
(* other, with a field and a child bundle.                                 *)
(***************************************************************************)
EXTENDS Storages
CONSTANTS u1, u2, p1, p2, top

\* The entities of a bundle two levels below a root, and one level below.
MCPath == {<<top, p, u>> : p \in {p1, p2}, u \in {u1, u2}}
MCPathBelowRoot == {<<p, u>> : p \in {p1, p2}, u \in {u1, u2}}
===============================================================================
