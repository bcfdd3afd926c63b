\* Three descriptors beyond the standard streams.
CONSTANTS
  ALT_MAX_FD = 6
  Settable = {"NONBLOCK"}
SPECIFICATION Spec
INVARIANTS LockedIsAlone StreamsStay
PROPERTY FailureLeavesNoTrace
