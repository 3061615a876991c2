SPECIFICATION Spec
CONSTANTS
  QueueCap = 2
  MaxSamples = 3
  Modes = {"service"}
INVARIANT StoreQueueDrained
CHECK_DEADLOCK FALSE
