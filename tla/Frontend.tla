---- MODULE Frontend ----
(* The pages whose scripts keep state: the page of an entity, and the page  *)
(* of TIPSY.  A window shows one of them.  entry/hangover runs tripletable, *)
(* showable and graph, in this order, on the page of an entity; the table   *)
(* and the graph are rendered from the same triples, each in a showable.    *)
EXTENDS TripleTable, GraphView, TipsyPage

CONSTANTS
  Entities,   \* what an entity may consist of: sequences of triples
  Showables   \* the elements of class showable

VARIABLES
  window,  \* which page it is
  hidden,  \* per showable
  toggle   \* the text of its toggle: the placeholder, or "Hide"

vars == <<tableVars, graphVars, tipsyVars, window, hidden, toggle>>

\* viewer_render_triples.html: the label each part was stated with, and behind
\* it the canonical one if that differs.  For an inferred triple the canonical
\* subject and object are those of the stated object and subject.
RowURIs(t) ==
  LET Cell(part) == IF t.stated[part] = t.canonical[part] THEN <<t.stated[part]>>
                    ELSE <<t.stated[part], t.canonical[part]>>
  IN Cell("subject") \o Cell("predicate") \o
     (IF t.role = "data" THEN <<>> ELSE Cell("object")) \o <<t.graph>>
TableOf(entity) == [i \in 1 .. Len(entity) |-> RowURIs(entity[i])]

\* viewer_render_graph.html: the canonical labels, the data apart from the
\* triples.
Canonical(triples) == [i \in 1 .. Len(triples) |-> triples[i].canonical]
DataOf(entity) ==
  [triples |-> Canonical(SelectSeq(entity, LAMBDA t : t.role # "data")),
   data |-> Canonical(SelectSeq(entity, LAMBDA t : t.role = "data"))]

\* What renderGraph may rely on: JSON writes a datum with quotes around it, and
\* a label of the index is an IRI or what stands behind the "_:" of a blank node.
Statements(length, language) ==
  [subject : URIs, predicate : URIs, object : URIs, length : length, language : language]
GraphData(d) ==
  /\ d.triples \in Seq(Statements({0}, {0})) /\ d.data \in Seq(Statements(Nat \ {0}, Nat))
  /\ \A i \in 1 .. Len(d.data) : <<"_:d", i>> \notin URIs

ASSUME EntitiesAssumption ==
  \A entity \in Entities : TableOf(entity) \in Seq(Seq(URIs)) /\ GraphData(DataOf(entity))

\* Each showable starts with a click of its own, which hides it.
Init ==
  /\ \/ window = "entity" /\ \E entity \in Entities :
          /\ table = TableOf(entity) /\ data = [s \in Scripts |-> DataOf(entity)]
          /\ dataset = FALSE
     \/ window = "tipsy" /\ table = <<>> /\ data = [s \in Scripts |-> DataOf(<<>>)]
  /\ TableInit /\ GraphInit /\ TipsyInit
  /\ hidden = [x \in Showables |-> TRUE]
  /\ toggle = [x \in Showables |-> "placeholder"]

\* Mutant of Toggle: the text is set after the state it describes.
Toggle_TextAfter(x) ==
  /\ hidden' = [hidden EXCEPT ![x] = ~hidden[x]]
  /\ toggle' = [toggle EXCEPT ![x] = IF hidden'[x] THEN "Hide" ELSE "placeholder"]

\* The text is set before the state it describes.
Toggle(x) ==
  /\ toggle' = [toggle EXCEPT ![x] = IF hidden[x] THEN "Hide" ELSE "placeholder"]
  /\ hidden' = [hidden EXCEPT ![x] = ~hidden[x]]

OnEntity == window = "entity" /\ UNCHANGED <<window, tipsyVars>>

Next ==
  \/ OnEntity /\ TableStep /\ UNCHANGED <<graphVars, hidden, toggle>>
  \/ OnEntity /\ (\E s \in Scripts : GraphStep(s)) /\ UNCHANGED <<tableVars, hidden, toggle>>
  \/ OnEntity /\ (\E x \in Showables : Toggle(x)) /\ UNCHANGED <<tableVars, graphVars>>
  \/ window = "tipsy" /\ TipsyStep /\ UNCHANGED <<window, tableVars, graphVars, hidden, toggle>>

Fairness ==
  \A s \in Scripts :
    WF_vars(OnEntity /\ GraphStep(s) /\ UNCHANGED <<tableVars, hidden, toggle>>)

Spec == Init /\ [][Next]_vars /\ Fairness

----------------------------------------------------------------------------
\* The variables of the scripts have their types, and a toggle says what it
\* will do: it holds its placeholder exactly while its element is hidden.
TypeOK ==
  /\ TableTypeOK /\ GraphTypeOK /\ TipsyTypeOK
  /\ \A x \in Showables : hidden[x] <=> toggle[x] = "placeholder"

\* The page does not say "Loading ..." for ever: each graph is shown or said
\* to have failed, but for a result without an <svg> in it.
GraphSettles ==
  window = "entity" =>
    \A s \in Scripts : <>(span[s] # "Loading ..." \/ render[s] = "thrown")
====
