\* Three USB slots, four attachments, an address past the table; two network
\* slots, three devices.
SPECIFICATION AllSpec
CONSTANTS
  USB_MAX_DEVICES = 3
  Addresses = {0, 1, 3}
  MAX_IO_PORTS = 1024
  MaxAttached = 4
  NET_MAX_DEVICES = 2
  MACs = {0, 1, 2}
  IPs = {0, 1}
  MaxAdded = 3
INVARIANTS
  AllTypeOK
  ReportsMatchTable
  PointersHoldUntilMoved
PROPERTIES
  ImplementsRegistry
  NetworkPointersNeverMove
CHECK_DEADLOCK FALSE
