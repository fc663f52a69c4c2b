\* One call over a connection that cuts sends.
SPECIFICATION Spec
CONSTANTS
  add = add
  echo = echo
  tail = tail
  gone = gone
  sum = sum
  book = book
  Null = Null
  Request <- Requests
  Reply <- Replies
  Response <- Responses
  Length <- Lengths
  Base = 2
  Call = {k1}
  Network <- OnlyCut
INVARIANTS
  ServerReadsWhole
