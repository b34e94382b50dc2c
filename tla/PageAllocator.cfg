\* Two preemptible callers, the network card and addTask over two pages; or the
\* boot task alone over six, before the network card and the first program.
SPECIFICATION MCSpec
CONSTANTS
  Tasks = {t1, t2}
  Nics = {nic}
  Stacks = {stack}
  NPages = 2
  BigPages <- MCBigPages
  Nobody = nobody
  MaxGrants = 2
  BootPages = 6
  Kernel = kernel
INVARIANTS
  SharedOnlyByRace
  MapExact
PROPERTIES
  RequestEnds
  BootImplementsOwnership
CHECK_DEADLOCK FALSE
