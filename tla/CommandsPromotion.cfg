SPECIFICATION Spec
CONSTANTS
  Prompts = {p1}
  Goals = {g1}
  Notifications = {n1, n2}
  Messages = {}
  Controls = {}
  Promoted = {p1, g1}
  Replayed = {}
  OffPeak = {n1}
  MaxGeneration = 0
  None = None
INVARIANTS TypeOK OneTurn NoCollision LeaseIsOwned NoLostWakeup
PROPERTIES LeaseHoldsOthersBack IsSerialExecutor
\* The session rests once every command of the instance is settled.
CHECK_DEADLOCK FALSE
