\* Any calls on two descriptors, with every error the functions distinguish, by
\* a thread that has no scheduler, one that does not run, and one that runs.
SPECIFICATION SocketsSpec
CHECK_DEADLOCK FALSE
CONSTANTS
  Fd = {1, 2}
  Cap = 2
  MaxLen = 3
INVARIANTS
  ResultTells
  NoneForgotten
  OnlyPlainWaits
