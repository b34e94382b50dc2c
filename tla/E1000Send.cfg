\* A task and the handler send through three descriptors; requests come in.
SPECIFICATION Spec
CONSTANTS
  Senders = {t1}
  Pollers = {}
  Handler = handler
  Nobody = nobody
  Stale = stale
  RxSize = 2
  TxSize = 3
  Arriving = {"request"}
PROPERTIES
  SendsGoOut
  SendEnds
CHECK_DEADLOCK FALSE
