---- MODULE MCFrontend ----
EXTENDS Frontend
CONSTANTS e, o, p
SPO(s, x, n, l) == [subject |-> s, predicate |-> p, object |-> x, length |-> n, language |-> l]
Triple(s, r, x) == [stated |-> SPO(s, x, 0, 0), canonical |-> SPO(s, x, 0, 0), graph |-> o, role |-> r]
Alias(s, x, cs, cx) == [Triple(s, "regular", x) EXCEPT !.canonical = SPO(cs, cx, 0, 0)]
\* What is inferred from a statement keeps it, and has its ends swapped.
Inferred(s, x) == [Triple(s, "inverse", x) EXCEPT !.canonical = SPO(x, s, 0, 0)]
Datum(s, n, l) == [Triple(s, "data", s) EXCEPT !.canonical = SPO(s, s, n, l)]
MCEntities ==
  {<<Triple(e, "regular", o), Datum(e, 3, 0), Inferred(p, o)>>,
   <<Datum(e, 2, 2), Datum(e, 4, 0)>>,
   <<Alias(e, e, p, e), Datum(o, 2, 0), Triple(e, "regular", o)>>,
   <<Triple(e, "regular", e), Triple(e, "regular", e), Datum(o, 2, 0)>>}
====
