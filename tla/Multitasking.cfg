\* A shell that starts two programs, which become shells in their turn.
SPECIFICATION Spec
CONSTANTS
  MAX_TASKS = 3
  BootSleep = 5
  MaxSleep = 2
INVARIANTS
  ContextsKeepTheirTask
  RoundRobin
  SleepsLongEnough
PROPERTY
  TasksGoOn
