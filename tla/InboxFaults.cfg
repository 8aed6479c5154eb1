SPECIFICATION Spec
SYMMETRY Symmetry
CONSTANTS
  i1 = i1
  k1 = k1
  r1 = r1
  r2 = r2
  Inputs = {i1}
  Compacts = {k1}
  Plain = {}
  Requests = {r1, r2}
  Limit = 1
  MaxCrashes = 1
  StoreFails = TRUE
  SessionResume = TRUE
  None = None
INVARIANTS
  WorkIsPinned
  OneInFlight
  NoCircularWait
PROPERTIES
  FailedMeansFailed
  AcceptedWasExecuted
