\* Two tasks that open, read and write one file, each with one descriptor, and read lines; two
\* TCP sessions, one of which sends two messages and is sent one; two shells that load a program
\* at the same time, after a first one; and two that interpret one.
SPECIFICATION MCSpec
CONSTANTS
  Tasks = {t1, t2}
  Names = {f}
  Nobody = nobody
  Nowhere = nowhere
  NSlots = 1
  MaxWrites = 3
  s1 = s1
  s2 = s2
  None = none
  Sessions = {s1, s2}
  Ports <- MCPorts
  MaxMessages <- MCMessages
  MaxPushes <- MCOnce
  MaxResends <- MCOnce
  a = a
  b = b
  Binaries = {a, b}
  Size <- MCSize
  NPages = 12
  Gap = 4
  NTasks = 4
  MaxOthers = 1
  Interpreters = {s1, s2}
  Images <- MCImages
  SXE_MEMORY_SIZE = 10
  SXE_CALL_STACK_SIZE = 3
  MaxRuns = 2
  MaxCalls = 3
SYMMETRY Symmetry
INVARIANTS
  AppendsAreKept
  DescriptorsAreWhole
  LinesComeHome
  SessionsAreOwn
  RunsItsProgram
  CallsReturn
CHECK_DEADLOCK FALSE
