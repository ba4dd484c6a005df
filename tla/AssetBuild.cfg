SPECIFICATION BuildSpec
CONSTANTS
  Entrypoints <- MCEntrypoints
  MaxEdits = 1
INVARIANTS BuildTypeOK AssetsMatch
