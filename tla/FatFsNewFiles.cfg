\* One task writes two small files that do not exist yet.
SPECIFICATION Spec
CONSTANTS
  f = f
  g = g
  Tasks = {t1}
  Files <- FilesFG
  Deleted = Deleted
  Aliases <- NoAliases
  NSlots = 2
  Scanned <- MCScanned
  LastCluster = 4
  BytesPerSector = 2
  SectorsPerCluster = 1
  Entries <- NoEntries
  ParentIndex = 0
  MaxSize = 1
  MaxWrites = 2
INVARIANTS
  WritesCanBeReadBack
CHECK_DEADLOCK FALSE
