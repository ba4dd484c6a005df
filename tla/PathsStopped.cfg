CONSTANTS
  k1 = k1
  k2 = k2
  e1 = e1
  Failure = Failure
  Node = {1, 2}
  Class = {k1, k2}
  Predicate = {e1}
  Arrays <- MCArrays
  MaxWant = 9
  CanFail = FALSE
SPECIFICATION Spec
INVARIANT StopIsRespected
