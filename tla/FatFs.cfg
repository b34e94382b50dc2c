\* Two tasks that read and write two files, with failures and reboots.
SPECIFICATION Spec
CONSTANTS
  f = f
  g = g
  Tasks = {t1, t2}
  Files <- FilesFG
  Deleted = Deleted
  Aliases <- FBeginsG
  NSlots = 2
  Scanned <- MCScanned
  LastCluster = 4
  BytesPerSector = 2
  SectorsPerCluster = 1
  Entries <- MCEntries
  ParentIndex = 0
  MaxSize = 3
  MaxWrites = 2
SYMMETRY Symmetry
INVARIANTS
  WrittenIsReadBack
  ReaderSeesTheFile
PROPERTIES
  EntriesStay
CHECK_DEADLOCK FALSE
