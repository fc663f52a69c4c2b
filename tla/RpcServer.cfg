\* One client more than there are descriptors, which are reused: two handlers at a
\* time, and accepts that fail, for want of a descriptor or of anything else.
SPECIFICATION OrderedSpec
CONSTANTS
  Null = Null
  Coroutine = {c1, c2, c3, c4, c5}
  Fd = {lfd, f1, f2, failed}
  Lfd = lfd
  Failed = failed
  Invalid = {failed}
  SleepArgs = {}
  MaxTime = 0
  Aborting = TRUE
  MaxClients = 3
INVARIANTS
  OneHandlerEach
  FaultsOnlyOnFailed
PROPERTIES
  ServerRunsOn
  Accepted
  DescriptorsServed
