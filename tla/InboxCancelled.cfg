SPECIFICATION Spec
CONSTANTS
  i1 = i1
  p1 = p1
  r1 = r1
  Inputs = {i1}
  Compacts = {}
  Plain = {p1}
  Requests = {r1}
  Limit = 1
  MaxCrashes = 0
  StoreFails = FALSE
  SessionResume = FALSE
  None = None
PROPERTIES
  CancelledStaysCancelled
