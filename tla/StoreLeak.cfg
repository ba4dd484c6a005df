CONSTANTS
  r1 = r1
  r2 = r2
  c1 = c1
  c2 = c2
  Bundle <- MCChainBundle
  Roots <- MCChainRoots
  Children <- MCChain
  Fields <- MCChainFields
  OnDisk = TRUE
  MaxFaults = 0
SPECIFICATION Spec
INVARIANT CloseClosesStorages
