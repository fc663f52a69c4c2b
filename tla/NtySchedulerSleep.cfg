\* Two coroutines, a descriptor, and sleeps of zero, one and two milliseconds, under a
\* clock that never ends.
SPECIFICATION EndlessSpec
CONSTANTS
  Coroutine = {c1, c2}
  Fd = {f1}
  Invalid = {}
  SleepArgs = {0, 1, 2}
  MaxTime = 2
  Null = Null
INVARIANTS
  NoLostCoroutine
  ArmedIffWaiting
  SleepKeysDistinct
  WaitAssertionsHold
PROPERTIES
  QueuedRuns
  ReadyServed
