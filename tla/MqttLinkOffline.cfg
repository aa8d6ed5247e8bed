CONSTANTS
  MaxReading = 2
  MaxFaults = 1
  MaxOnWay = 3
  RecvMax = 1
SPECIFICATION Spec
INVARIANT LastJsonKept
