CONSTANTS
  Waiters = {"w1", "w2"}
  QueueCap = 3
SPECIFICATION Spec
INVARIANT TypeOK
PROPERTIES
  ServiceSpec
  WaiterAnswered
