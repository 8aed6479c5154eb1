SPECIFICATION FairSpec
CONSTANTS
  Prompts = {p1}
  Goals = {g1}
  Notifications = {}
  Messages = {m1}
  Controls = {}
  Promoted = {p1}
  Replayed = {}
  OffPeak = {}
  MaxGeneration = 1
  None = None
INVARIANT CancelMarksRunning
PROPERTIES StoppedStartsNoTurn QueuedIsServed LeaseIsReturned
\* The session rests once every command of the instance is settled.
CHECK_DEADLOCK FALSE
