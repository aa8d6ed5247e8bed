CONSTANTS
  IcmTries = 3
  BypassTries = 5
  WiaTries = 8
  DrdyTries = 4
  Throttle = 4
  ConfigOk = TRUE
  MaxFaults = 4
SPECIFICATION TaskSpec
INVARIANTS TaskTypeOK RightBank MagDeviceOwned WatchdogFed
PROPERTY SensorsRecover
