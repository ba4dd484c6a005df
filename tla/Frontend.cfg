SPECIFICATION Spec
CONSTANTS
  e = e
  o = o
  p = p
  URIs = {e, o, p}
  NumColors = 2
  NoURI = NoURI
  Scripts = {g1}
  Line = 2
  Sources = {self, tipsy}
  Frame = tipsy
  MaxInbox = 2
  Entities <- MCEntities
  Showables = {triples, graph}
INVARIANTS TypeOK RowsInOrder ColorsTellApart GraphIsFaithful DataSentOnce
PROPERTY GraphSettles
CHECK_DEADLOCK FALSE
