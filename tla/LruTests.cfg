\* Every test of lru_unittest.cc against the cache's contract, the
\* multi-thread test in every interleaving of its threads.
CONSTANTS
  PressureSize <- MCPressureSize
  NumWorkers <- MCNumWorkers
SPECIFICATION Spec
INVARIANT ExpectationsHold WorkersSeeOwnKey
