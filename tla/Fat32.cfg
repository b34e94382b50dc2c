\* The start of up to two drives, one of them perhaps a FAT32 volume with the kernel.
SPECIFICATION MCSpec
CONSTANTS
  Tasks = {t1}
  Sectors = {s1}
  Payloads = {v1}
  None = none
  Kinds = {"none", "ata", "atapi", "sata"}
  MaxReads = 2
  Machines <- MCMachines
INVARIANTS
  FAT32Boots
CHECK_DEADLOCK FALSE
