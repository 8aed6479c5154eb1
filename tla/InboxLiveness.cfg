SPECIFICATION FairSpec
CONSTANTS
  i1 = i1
  p1 = p1
  r1 = r1
  r2 = r2
  Inputs = {i1}
  Compacts = {}
  Plain = {p1}
  Requests = {r1, r2}
  Limit = 1
  MaxCrashes = 0
  StoreFails = TRUE
  SessionResume = TRUE
  None = None
PROPERTIES
  EveryCallReturns
