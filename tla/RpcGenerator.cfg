\* Three runs over six registration files, each of which may fail to be opened or read.
SPECIFICATION Spec
CONSTANTS
  good = good
  cut = cut
  long = long
  untyped = untyped
  broken = broken
  empty = empty
  File = {good, cut, long, untyped, broken, empty}
  Json <- Jsons
  NoJson = NoJson
  Null = Null
  Fit = 3
  MaxRuns = 3
INVARIANTS
  OutputsAgree
  CleanOrCaused
