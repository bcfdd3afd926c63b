\* Three alarms on a counter of four ticks.
CONSTANTS
  Alarm = {a1, a2, a3}
  head = head
  none = none
  W = 4
  Delays = {1, 2}
SPECIFICATION Spec
INVARIANTS ListSound OnTime
PROPERTY AlarmsGoOff
CHECK_DEADLOCK FALSE
