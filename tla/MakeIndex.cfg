CONSTANTS
  n1 = n1
  n2 = n2
  e1 = e1
  e2 = e2
  e3 = e3
  same = same
  inv = inv
  g1 = g1
  g2 = g2
  Datum = Datum
  NoLabel = NoLabel
  NoMask = NoMask
  Label <- MCLabel
  Source = {g1, g2}
  MaxTokens = 3
  Inputs <- MCInputs
  SameAs <- MCSameAs
  InverseOf <- MCInverseOf
  Masks <- MCMasks
  MaxID = 13
  MaxTriple = 11
SPECIFICATION Spec
INVARIANTS TypeOK Mirrored BestLabel IDsMeanOneThing
INVARIANTS EdgesAreExpected CanonicalsAreCurrent
