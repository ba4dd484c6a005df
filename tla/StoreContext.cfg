CONSTANTS
  r1 = r1
  r2 = r2
  c1 = c1
  c2 = c2
  Bundle <- MCBundle
  Roots <- MCRoots
  Children <- MCChildren
  Fields <- MCFields
  OnDisk = TRUE
  MaxFaults = 1
SPECIFICATION Spec
INVARIANTS TypeOK NoWriterAfterWait AddIsExclusive
INVARIANTS LoadedStoragesOpen OtherErrorsAreReturned
PROPERTIES WaitGroupsNotReused ImplementsTreeExport ExportReturns
