---- MODULE GraphView ----
(* graph.ts: the graph of an entity, drawn by Graphviz in the browser.      *)
(* Each marked script element of the page holds the triples and the data of *)
(* an entity; the script builds a graph of them and renders it in a chain   *)
(* of promises, which may break.  A text is abstracted to its length.       *)
EXTENDS SequencesExt

CONSTANTS
  Scripts,  \* the script elements with data-render-graph
  Line      \* the line length of renderData

ASSUME LineAssumption == Line \in Nat

VARIABLES
  data,    \* what each script element holds
  render,  \* how far each chain of promises is
  span,    \* the text of the status span
  drawn    \* the graph handed to Graphviz

graphVars == <<data, render, span, drawn>>

\* JSON.stringify, and the language behind an @.
RenderedLength(d) == d.length + (IF d.language = 0 THEN 0 ELSE 1 + d.language)

\* renderData: the lengths of the lines a text is cut into.
Cut(n) ==
  LET lines[k \in 0 .. n] ==
        IF k > Line THEN <<Line>> \o lines[k - Line] ELSE IF k > 0 THEN <<k>> ELSE <<>>
  IN IF Line = 0 THEN <<n>> ELSE lines[n]

Ellipse(name) == [name |-> name, label |-> <<>>, shape |-> "ellipse"]
Box(i, d) == [name |-> <<"_:d", i>>, label |-> Cut(RenderedLength(d)), shape |-> "box"]
Edge(tail, label, head) == [tail |-> tail, label |-> label, head |-> head]

\* Mutant of NodeSet: the subjects of data are not nodes of their own.
NodeSet_NoData(d) == UNION {{t.subject, t.object} : t \in ToSet(d.triples)}

NodeSet(d) ==
  {t.subject : t \in ToSet(d.data)} \union
  UNION {{t.subject, t.object} : t \in ToSet(d.triples)}

Graph(d) ==
  [nodes |-> {Ellipse(n) : n \in NodeSet(d)} \union {Box(i, d.data[i]) : i \in 1 .. Len(d.data)},
   edges |-> [i \in 1 .. Len(d.triples) |->
                Edge(d.triples[i].subject, d.triples[i].predicate, d.triples[i].object)] \o
             [i \in 1 .. Len(d.data) |->
                Edge(d.data[i].subject, d.data[i].predicate, <<"_:d", i>>)]]

NoGraph == [nodes |-> {}, edges |-> <<>>]

GraphInit ==
  /\ render = [s \in Scripts |-> "waiting"]
  /\ span = [s \in Scripts |-> "Loading ..."]
  /\ drawn = [s \in Scripts |-> NoGraph]

\* instance() resolves and both renderString calls succeed.  Graphviz may
\* return a text without an <svg> in it.
Render(s) ==
  /\ render[s] = "waiting"
  /\ \E result \in {"rendered", "empty"} : render' = [render EXCEPT ![s] = result]
  /\ UNCHANGED <<data, span, drawn>>

\* instance() or one of the renderString calls throws.
Reject(s) ==
  /\ render[s] = "waiting"
  /\ render' = [render EXCEPT ![s] = "rejected"]
  /\ UNCHANGED <<data, span, drawn>>

\* The handler of success replaces the span; without an <svg> it throws, and
\* the handler of failure beside it is not called for that.
Show(s) ==
  /\ \/ /\ render[s] = "rendered"
        /\ render' = [render EXCEPT ![s] = "shown"]
        /\ span' = [span EXCEPT ![s] = "none"]
        /\ drawn' = [drawn EXCEPT ![s] = Graph(data[s])]
     \/ /\ render[s] = "empty"
        /\ render' = [render EXCEPT ![s] = "thrown"]
        /\ UNCHANGED <<span, drawn>>
  /\ UNCHANGED data

\* Mutant of ShowFailure: the status is left as it is.
ShowFailure_Silent(s) ==
  /\ render[s] = "rejected"
  /\ render' = [render EXCEPT ![s] = "failed"]
  /\ UNCHANGED <<data, span, drawn>>

ShowFailure(s) ==
  /\ render[s] = "rejected"
  /\ render' = [render EXCEPT ![s] = "failed"]
  /\ span' = [span EXCEPT ![s] = "failed to render graph"]
  /\ UNCHANGED <<data, drawn>>

GraphStep(s) == Render(s) \/ Reject(s) \/ Show(s) \/ ShowFailure(s)

GraphTypeOK ==
  /\ render \in [Scripts -> {"waiting", "rendered", "empty", "rejected", "shown", "thrown", "failed"}]
  /\ span \in [Scripts -> {"Loading ...", "none", "failed to render graph"}]

\* The graph has a node for each node of the triples and data, an edge per
\* triple, and for each datum a box of its own with its whole text in lines of
\* the given length, joined to its subject by one edge.
Boxes(graph) == {n \in graph.nodes : n.shape = "box"}
NodeNames(graph) == {n.name : n \in graph.nodes}
IsGraphOf(graph, d) ==
  LET edges == graph.edges IN
  /\ Len(edges) = Len(d.triples) + Len(d.data)
  /\ Cardinality(Boxes(graph)) = Len(d.data)
  /\ Cardinality(NodeNames(graph)) = Cardinality(graph.nodes)
  /\ \A e \in ToSet(edges) : e.tail \in NodeNames(graph) /\ e.head \in NodeNames(graph)
  /\ \A t \in ToSet(d.triples) :
       Cardinality({i \in DOMAIN edges : edges[i] = Edge(t.subject, t.predicate, t.object)})
         = Cardinality({i \in DOMAIN d.triples : d.triples[i] = t})
  /\ \A b \in Boxes(graph) :
       /\ Cardinality({i \in DOMAIN edges : edges[i].head = b.name}) = 1
       /\ Line = 0 => Len(b.label) = 1
       /\ Line > 0 => /\ \A i \in 1 .. Len(b.label) - 1 : b.label[i] = Line
                      /\ b.label[Len(b.label)] \in 1 .. Line
  /\ \A t \in ToSet(d.data) : \E b \in Boxes(graph), e \in ToSet(edges) :
       /\ e = Edge(t.subject, t.predicate, b.name)
       /\ (Len(b.label) - 1) * Line + b.label[Len(b.label)] = RenderedLength(t)

\* A graph that is shown is that of the triples and data of the page.
GraphIsFaithful == \A s \in Scripts : render[s] = "shown" => IsGraphOf(drawn[s], data[s])
====
