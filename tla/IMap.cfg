CONSTANTS
  n1 = n1
  n2 = n2
  n3 = n3
  NoLabel = NoLabel
  Label <- MCLabel
  MaxID = 5
SPECIFICATION Spec
INVARIANTS TypeOK ReverseInvertsLiteral CanonicalIsFixpoint IdentityIsClosure
PROPERTIES LiteralIsStable ImplementsPartition
