\* One file, and calls with doubles that are no whole numbers.
SPECIFICATION StubSpec
CHECK_DEADLOCK FALSE
CONSTANTS
  plain = plain
  again = again
  wider = wider
  remoteless = remoteless
  portless = portless
  broken = broken
  long = long
  missing = missing
  Null = Null
  Method = {"sayhello", "add", "sub", "mul", "sum", "echo"}
  File = {plain, again, wider, remoteless, portless, broken, long, missing}
  Json <- Files
  Library = {"sayhello", "add", "sub", "sum", "echo", "mul"}
  MaxParams = 3
  MaxLoads = 1
  Ints <- IntArguments
  Doubles <- DoubleArguments
  Messages <- Strings
  Scale = 2
  MaxInt = 7
INVARIANT DoublesArrive
