\* Trees of up to ten keys, one of them shared by two nodes, and two queues of
\* up to four elements.
SPECIFICATION SpecContainers
CONSTANTS
  Node = {1, 2, 3, 4, 5, 6, 7, 8, 9, 10, 11}
  Key <- MCKey
  NULL = 0
  Anchor = {ready, defer}
  Elem = {e1, e2, e3, e4}
  None = None
VIEW View
INVARIANTS
  RedBlack
PROPERTIES
  IsKeyedSet
  IsQueues
