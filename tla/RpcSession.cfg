\* Two concurrent calls, with sends that arrive whole and nobody killed, with cut
\* sends and clients killed at any point, or with failing rpc_mallocs.
SPECIFICATION FairSpec
CONSTANTS
  add = add
  echo = echo
  tail = tail
  gone = gone
  sum = sum
  book = book
  Null = Null
  Request <- Requests
  Reply <- Replies
  Response <- Responses
  Length <- Lengths
  Base = 2
  Call = {k1, k2}
  Network <- AllNetworks
INVARIANTS
  ProcessedIsRequest
  ResultIsAnswer
  NobodyDies
PROPERTIES
  CallsEnd
