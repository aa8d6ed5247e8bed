CONSTANTS
  QueueCap = 5
  MaxBounces = 1
  MaxPresses = 1
SPECIFICATION Spec
INVARIANT OneTogglePerPress
