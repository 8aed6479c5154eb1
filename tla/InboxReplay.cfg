SPECIFICATION Spec
SYMMETRY Symmetry
CONSTANTS
  i1 = i1
  i2 = i2
  p1 = p1
  r1 = r1
  r2 = r2
  Inputs = {i1, i2}
  Compacts = {}
  Plain = {p1}
  Requests = {r1, r2}
  Limit = 1
  MaxCrashes = 1
  StoreFails = FALSE
  SessionResume = FALSE
  None = None
INVARIANTS
  TypeOK
  OncePerCommand
  SweepSparesWork
PROPERTIES
  NeverForgotten
  ImplementsOnceOnly
