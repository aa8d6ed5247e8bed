CONSTANTS
  IcmTries = 3
  BypassTries = 5
  WiaTries = 8
  DrdyTries = 4
  Throttle = 4
  ConfigOk = FALSE
  MaxFaults = 5
SPECIFICATION Spec
INVARIANT RightBank
