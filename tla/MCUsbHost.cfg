SPECIFICATION Spec
CONSTANTS
  Devices <- TwoDevices
  LowSpeed <- SlowKeyboard
  Class <- ClassOf
  USB_NUMDEVICES = 3
  Settle = 1
  Wrap = 3
INVARIANT NoTransferInReset
INVARIANT SpeedMatches
INVARIANT PollsWhatIsPlugged
PROPERTY ChangeNoticed
