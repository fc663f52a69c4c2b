\* Three coroutines, two descriptors: every coroutine can wait, be queued and
\* run while another one does something else.  Nobody sleeps for a positive time.
SPECIFICATION Spec
CONSTANTS
  Coroutine = {c1, c2, c3}
  Fd = {f1, f2}
  Invalid = {}
  SleepArgs = {0}
  MaxTime = 0
  Null = Null
SYMMETRY Symmetry
INVARIANTS
  OnePlace
  EventHasWaiter
  StackIsolation
  NoFault
  ReturnsWhenAllEnded
PROPERTIES
  NoSpuriousWakeup
