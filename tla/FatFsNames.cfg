\* One task reads files one of which has a name that begins the other.
SPECIFICATION Spec
CONSTANTS
  f = f
  g = g
  Tasks = {t1}
  Files <- FilesFG
  Deleted = Deleted
  Aliases <- FBeginsG
  NSlots = 2
  Scanned <- MCScanned
  LastCluster = 4
  BytesPerSector = 2
  SectorsPerCluster = 1
  Entries <- MCEntries
  ParentIndex = 0
  MaxSize = 3
  MaxWrites = 2
INVARIANTS
  ReadsTheNamedFile
CHECK_DEADLOCK FALSE
