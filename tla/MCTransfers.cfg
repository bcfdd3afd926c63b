\* Two keys and two ports; three refusals, two losses, five ticks.
CONSTANTS
  Key = {"w", "space"}
  Slots = 2
  USB_NAK_LIMIT = 2
  USB_RETRY_LIMIT = 2
  USB_XFER_TIMEOUT = 5
  MaxReading = 6
  MaxQueue = 2
SPECIFICATION Spec
INVARIANT WorkingChipIsKept
PROPERTIES ReportsAreAPipe KeptKeysStay DispatchEnds PortsFollow
CHECK_DEADLOCK FALSE
