SPECIFICATION BatchSpec
CONSTANTS
  MaxBatch = 3
INVARIANT
  ThrowSkipsThatMessageOnly
\* A batch that is over leaves nothing to do.
CHECK_DEADLOCK FALSE
