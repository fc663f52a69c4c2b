\* Calls and registrations with escapes, damaged and cut texts, and allocations
\* that fail at any point.
SPECIFICATION WireSpec
CONSTANTS
  NestingLimit = 3
  IntMax = 20
  PrintSize = 4
  Requests <- MCRequests
  Results <- MCResults
  Files <- MCFiles
  Noise = {0, 34, 44, 48, 92, 93, 117, 125}
  Allocations = {0, 1, 2, 3, 4, 5, 6, 7, 8, 9, 10, 11, 12, 13, 14, 15, 16, 17, 18, 19, 20, 21, 22, 23, 24, 40}
  MethodKey <- MCMethodKey
  ParamsKey <- MCParamsKey
  CalleridKey <- MCCalleridKey
  ResultKey <- MCResultKey
CHECK_DEADLOCK FALSE
INVARIANTS
  CallArrives
  AcceptedIsSent
  PartsRefused
  HeapHolds
PROPERTIES
  FailureFreesAll
