SPECIFICATION FairSpec
CONSTANTS
  k1 = k1
  r1 = r1
  Inputs = {}
  Compacts = {k1}
  Plain = {}
  Requests = {r1}
  Limit = 1
  MaxCrashes = 0
  StoreFails = FALSE
  SessionResume = FALSE
  None = None
PROPERTIES
  PinIsReleased
