\* No restart, several copies and, as in the code, a memory shorter than the window.
CONSTANTS
  Block = 10
  CounterMax = 11
  Width = 4
  Messages = {"long", "next"}
  FragCount <- MCFragCount
  NoMessage = "none"
  Copies = 2
  MaxFragsPerMessage = 2
  MaxQueued = 8
  SeqMax = 3
  MaxOpen = 1
  MaxOpenFrags = 2
  MaxMessageFrags = 2
  MaxCopies = 2
  Slack = 0
  Remember = 1
  MaxRestarts = 0
SPECIFICATION Spec
INVARIANT CopiesFillGaps
PROPERTY ChannelSpec
CHECK_DEADLOCK FALSE
