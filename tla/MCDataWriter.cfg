CONSTANTS
  p1 = p1  p2 = p2  Unlocked = Unlocked
  Callers = {p1, p2}
  QueueCapacity = 2
  MaxBatch = 2
  CsvMax = 2
  BackoffMin = 1
  BackoffMax = 3
  CallSizes = {1, 3}
  MaxTicks = 3
  MaxStarts = 2
  MaxFaults = 2
SPECIFICATION WriterSpec
CHECK_DEADLOCK FALSE
INVARIANTS TicksAccounted StopDrains
PROPERTIES CallsReturn
