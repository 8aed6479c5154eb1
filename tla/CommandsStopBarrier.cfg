SPECIFICATION Spec
CONSTANTS
  Prompts = {p1}
  Goals = {}
  Notifications = {n1}
  Messages = {}
  Controls = {}
  Promoted = {p1}
  Replayed = {}
  OffPeak = {}
  MaxGeneration = 0
  None = None
PROPERTY BarredPromotionIsAdmitted
\* The session rests once every command of the instance is settled.
CHECK_DEADLOCK FALSE
