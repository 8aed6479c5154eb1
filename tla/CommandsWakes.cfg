SPECIFICATION Spec
CONSTANTS
  Prompts = {p1}
  Goals = {}
  Notifications = {n1, n2}
  Messages = {}
  Controls = {k1}
  Promoted = {}
  Replayed = {p1}
  OffPeak = {n1, n2}
  MaxGeneration = 2
  None = None
SYMMETRY Interchangeable
PROPERTIES OnlyBatchesOvertake ControlStopsAbsorption StaleNeverStarts OffPeakStaysCancelled
\* The session rests once every command of the instance is settled.
CHECK_DEADLOCK FALSE
