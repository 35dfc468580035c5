CONSTANTS
  i1 = i1
  Importers = {i1}
  LastComment = 2
SPECIFICATION LeaSpec
INVARIANT PageIsImported
CHECK_DEADLOCK FALSE
