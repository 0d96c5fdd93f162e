\* The sending end restarts once; counters, window and buffer.
CONSTANTS
  Block = 3
  CounterMax = 10
  Width = 3
  Messages = {"wide", "broad"}
  FragCount <- MCFragCount
  NoMessage = "none"
  Copies = 1
  MaxFragsPerMessage = 3
  MaxQueued = 6
  SeqMax = 2
  MaxOpen = 2
  MaxOpenFrags = 3
  MaxMessageFrags = 3
  MaxCopies = 2
  Slack = 0
  Remember = 1
  MaxRestarts = 1
SPECIFICATION Spec
INVARIANTS
  TypeOK
  NoncesAreFresh
  AcceptedStayStale
  BufferIsBounded
CHECK_DEADLOCK FALSE
