CONSTANTS
  QueueCap = 2
  MaxBounces = 3
  MaxPresses = 3
SPECIFICATION Spec
INVARIANTS TypeOK ReleaseRemembered
PROPERTY ReleaseToggles
