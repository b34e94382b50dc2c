\* A stick on one of two ports, read again after its installation, or three ports of an XHCI host.
SPECIFICATION MCSpec
CONSTANTS
  Ports = 2
  Polls = 2
  Width = 6
  Spaces <- MCSpaces
  First = 2
  None = none
  Sectors = {0, 1}
  MaxCount = 2
  MaxReads = 1
  XhciPorts = 3
  RingSize = 26
  Patience = 2
  XhciCapabilities <- MCLists
  XhciDevices <- MCDevices
INVARIANTS
  SuccessIsTheSectors
  EventsFit
PROPERTIES
  GivenBackIsLeftAlone
  SectorKeepsPages
  EventsAreOwn
  HostsEnd
CHECK_DEADLOCK FALSE
