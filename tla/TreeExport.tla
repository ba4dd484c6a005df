------------------------------ MODULE TreeExport ------------------------------
(***************************************************************************)
(* What Export promises for a tree of bundles (internal/sparkl/            *)
(* pathbuilder.go), as if nothing in it were concurrent: the bundles are   *)
(* filled, in any order; then either something failed and no root is       *)
(* exported, or all bundles are full, none changes any more, and the roots *)
(* are exported, in any order.  It answers nil only if all of them were.   *)
(* What it does not promise: that a full bundle has all of its values and  *)
(* children.  Those without an entity to belong to are left out, whatever  *)
(* the answer is.                                                          *)
(***************************************************************************)
CONSTANTS Bundle, RootSet

VARIABLES phase,     \* "filling", "exporting", "over"
          full,      \* the bundles with all entities, fields and children
          lossy,     \* of these, the ones of which something was left out
          exported,  \* the roots the exporter has all entities of
          answer     \* of Export, "none" before

vars == <<phase, full, lossy, exported, answer>>

Init == phase = "filling" /\ full = {} /\ lossy = {} /\ exported = {} /\ answer = "none"

\* Context.Store does the last thing to be done for a bundle.  What was left out
\* of it is known by then.
Fill(b) ==
    /\ phase = "filling" /\ b \notin full
    /\ full' = full \union {b}
    /\ lossy' \in {lossy, lossy \union {b}}
    /\ UNCHANGED <<phase, exported, answer>>

\* StoreBundles answers an error.
GiveUp ==
    /\ phase = "filling"
    /\ phase' = "over" /\ answer' = "error"
    /\ UNCHANGED <<full, lossy, exported>>

\* StoreBundles answers nil.
Begin ==
    /\ phase = "filling" /\ full = Bundle
    /\ phase' = "exporting"
    /\ UNCHANGED <<full, lossy, exported, answer>>

ExportRoot(r) ==
    /\ phase = "exporting" /\ r \notin exported
    /\ exported' = exported \union {r}
    /\ UNCHANGED <<phase, full, lossy, answer>>

Return ==
    /\ phase = "exporting"
    /\ phase' = "over"
    /\ answer' \in {"nil", "error"} /\ (answer' = "nil" => exported = RootSet)
    /\ UNCHANGED <<full, lossy, exported>>

Next == (\E b \in Bundle : Fill(b)) \/ GiveUp \/ Begin \/ (\E r \in RootSet : ExportRoot(r)) \/ Return

Spec == Init /\ [][Next]_vars
===============================================================================
