SPECIFICATION FairSpec
CONSTANTS
  N <- MCN
  First <- MCFirst
  Resumes = {"desktop"}
  High = 2
  Low = 1
  ReplayMax = 3
  MaxWire = 2
  MaxDrops = 1
  MaxLosses = 1
INVARIANTS
  AckedIsDelivered
  AckIsKept
  NoFutureAck
  GapOnlyAfterLoss
  FlowFollowsBacklog
PROPERTIES
  ImplementsReliableStream
  MessagesArrive
CHECK_DEADLOCK FALSE
