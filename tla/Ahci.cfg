\* Two tasks, two sectors with one of two payloads; every set of IDE drives; up to two drives at boot.
SPECIFICATION MCSpec
CONSTANTS
  Tasks = {t1, t2}
  Sectors = {s1, s2}
  Payloads = {v1, v2}
  None = none
  Kinds = {"none", "ata", "atapi", "sata"}
  MaxReads = 2
  Machines <- MCMachines
INVARIANTS
  CalmReadsAreExact
  LettersFollowTheWalk
  StopsForAReason
PROPERTIES
  SuccessIsTrue
  DrivesEnd
CHECK_DEADLOCK FALSE
