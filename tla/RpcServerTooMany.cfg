\* More clients than descriptors.
SPECIFICATION ServerSpec
CONSTANTS
  Null = Null
  Coroutine = {c1, c2, c3, c4}
  Fd = {lfd, f1, failed}
  Lfd = lfd
  Failed = failed
  Invalid = {failed}
  SleepArgs = {}
  MaxTime = 0
  Aborting = FALSE
  MaxClients = 3
SYMMETRY Workers
INVARIANTS
  WaitAssertionsHold
