SPECIFICATION Spec
CONSTANTS
  Prompts = {p1}
  Goals = {g1, g2}
  Notifications = {n1}
  Messages = {}
  Controls = {}
  Promoted = {g1}
  Replayed = {}
  OffPeak = {}
  MaxGeneration = 0
  None = None
INVARIANT NothingWaitsBehindOrphan
\* The session rests once every command of the instance is settled.
CHECK_DEADLOCK FALSE
