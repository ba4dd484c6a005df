---- MODULE TripleTable ----
(* tripletable.ts: the table of the triples of an entity.  A click with     *)
(* Ctrl on a URI highlights it wherever it occurs, one with Alt brings the  *)
(* rows it occurs in to the front; on the head of the table they undo all   *)
(* highlights, or the order.  The script keeps the rows in an array that it *)
(* sorts in place, and the colours in a map from the text of a URI.         *)
EXTENDS SequencesExt

CONSTANTS
  URIs,
  NumColors,  \* colors.length
  NoURI

ASSUME TableAssumption == NumColors \in Nat \ {0} /\ NoURI \notin URIs

VARIABLES
  table,        \* what the server rendered: a sequence of URIs per row
  rows,         \* the array, as indexes of table (data-original-index)
  body,         \* the rows of <tbody>, in the order the browser shows them
  highlighted,  \* the map: the colour of a URI, 0 when it has none
  colorIndex,
  style,        \* the colour of each element <<row, position>>
  front,        \* the URI whose rows were brought to the front last; not in the code
  marked        \* how many highlights were set since a reset, capped; not in the code

tableVars == <<table, rows, body, highlighted, colorIndex, style, front, marked>>

Original == [i \in 1 .. Len(table) |-> i]
Elements == UNION {{<<i, k>> : k \in 1 .. Len(table[i])} : i \in 1 .. Len(table)}
Text(e) == table[e[1]][e[2]]
Has(i, uri) == uri \in ToSet(table[i])  \* rowdata[i].has(uri)
Colored(colors) == [e \in Elements |-> colors[Text(e)]]

TableInit ==
  /\ rows = Original /\ body = Original
  /\ highlighted = [u \in URIs |-> 0] /\ colorIndex = 0
  /\ style = Colored(highlighted)
  /\ front = NoURI /\ marked = 0

\* Each row in turn is taken out and appended.
MovedToEnd(shown, i) == Append(RemoveFirst(shown, i), i)
Rerendered(order) == FoldLeft(MovedToEnd, body, order)

\* Array.prototype.sort: the comparators tell any two rows apart.
Sorted(order, Before(_, _)) ==
  CHOOSE sorted \in [DOMAIN order -> ToSet(order)] :
    /\ ToSet(sorted) = ToSet(order)
    /\ \A k, l \in DOMAIN order : k < l => Before(sorted[k], sorted[l])

SortRows(Before(_, _)) ==
  /\ rows' = Sorted(rows, Before)
  /\ body' = Rerendered(rows')

\* Mutant of BringToFront: rows that compare equal stay where the last sort put them.
BringToFront_KeepsOrder(uri) ==
  LET At(i) == CHOOSE k \in 1 .. Len(rows) : rows[k] = i
      Before(i, j) == IF Has(i, uri) = Has(j, uri) THEN At(i) < At(j) ELSE Has(i, uri)
  IN SortRows(Before) /\ front' = uri

BringToFront(uri) ==
  LET Before(i, j) == IF Has(i, uri) = Has(j, uri) THEN i < j ELSE Has(i, uri)
  IN SortRows(Before) /\ front' = uri

ResetRowOrder == SortRows(<) /\ front' = NoURI

ToggleHighlight(uri) ==
  LET set == highlighted[uri] = 0 IN
  /\ highlighted' = [highlighted EXCEPT ![uri] = IF set THEN colorIndex + 1 ELSE 0]
  /\ colorIndex' = IF set THEN (colorIndex + 1) % NumColors ELSE colorIndex
  /\ marked' = IF set THEN IF marked > NumColors THEN marked ELSE marked + 1 ELSE marked
  /\ style' = Colored(highlighted')

\* Mutant of ResetColors: the map is not cleared.
ResetColors_KeepsMap ==
  /\ colorIndex' = 0 /\ marked' = 0
  /\ UNCHANGED <<highlighted, style>>

ResetColors ==
  /\ highlighted' = [u \in URIs |-> 0]
  /\ style' = Colored(highlighted')
  /\ colorIndex' = 0 /\ marked' = 0

\* Ctrl (or Meta) comes first; a click with neither key does nothing.
ClickURI(e, ctrl, alt) ==
  /\ \/ ctrl /\ ToggleHighlight(Text(e)) /\ UNCHANGED <<rows, body, front>>
     \/ ~ctrl /\ alt /\ BringToFront(Text(e))
        /\ UNCHANGED <<highlighted, colorIndex, style, marked>>
  /\ UNCHANGED table

ClickHead(ctrl, alt) ==
  /\ \/ ctrl /\ ResetColors /\ UNCHANGED <<rows, body, front>>
     \/ ~ctrl /\ alt /\ ResetRowOrder
        /\ UNCHANGED <<highlighted, colorIndex, style, marked>>
  /\ UNCHANGED table

TableStep ==
  \E ctrl, alt \in BOOLEAN :
    ClickHead(ctrl, alt) \/ \E e \in Elements : ClickURI(e, ctrl, alt)

TableTypeOK ==
  /\ rows \in Seq(1 .. Len(table)) /\ body \in Seq(1 .. Len(table))
  /\ highlighted \in [URIs -> 0 .. NumColors] /\ colorIndex \in 0 .. NumColors - 1
  /\ style \in [Elements -> 0 .. NumColors]
  /\ front \in URIs \union {NoURI} /\ marked \in 0 .. NumColors + 1

\* The order a reader expects: the rows with the URI, then the others, both
\* as the server wrote them.
Ascending(order, from, to) == \A k, l \in from .. to : k < l => order[k] < order[l]
Arranged(order, uri) ==
  \E n \in 0 .. Len(table) :
    /\ ToSet(order) = 1 .. Len(table) /\ Len(order) = Len(table)
    /\ {order[k] : k \in 1 .. n} = {i \in 1 .. Len(table) : Has(i, uri)}
    /\ Ascending(order, 1, n) /\ Ascending(order, n + 1, Len(table))

\* Whatever was clicked before, the table shows each row once, and in the
\* order of the last click that moved rows.
RowsInOrder == Arranged(body, front) /\ rows = body

\* Equal URIs are coloured alike, those that are highlighted and no others;
\* and up to NumColors highlights after a reset different URIs differ.
ColorsTellApart ==
  /\ \A e, f \in Elements : Text(e) = Text(f) => style[e] = style[f]
  /\ \A e \in Elements : style[e] = highlighted[Text(e)]
  /\ marked <= NumColors =>
       \A e, f \in Elements :
         style[e] # 0 /\ style[e] = style[f] => Text(e) = Text(f)
====
