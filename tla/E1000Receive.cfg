\* A task polls, and every kind of packet comes into three descriptors.
SPECIFICATION Spec
CONSTANTS
  Senders = {}
  Pollers = {t1}
  Handler = handler
  Nobody = nobody
  Stale = stale
  RxSize = 3
  TxSize = 2
  Arriving = {"request", "notice", "other"}
INVARIANTS
  ForgottenOnlyIfMerged
  DeafOnlyIfFull
PROPERTIES
  NothingOverwritten
CHECK_DEADLOCK FALSE
