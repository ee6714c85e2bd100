\* A pool that was shut down stops, and so does one that misses its shutdown
\* and is not woken spuriously.
CHECK_DEADLOCK FALSE
CONSTANTS
  w1 = w1
  w2 = w2
  s1 = s1
  s2 = s2
  Workers <- MCWorkers
  Slots <- MCSlots
  MaxEmissions = 2
  Tasks <- MCTasks
SPECIFICATION SignalFairSpec
INVARIANTS
  FullParallelism
PROPERTIES
  ImplementsCallBoard
  SlotsCalled
  ShutdownEnds
