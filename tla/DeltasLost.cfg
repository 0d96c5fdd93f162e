SPECIFICATION Spec
CONSTANTS
  esc = esc
  detections = detections
  vacant = vacant
  unwritten = unwritten
  Nothing = Nothing
  Always <- MCAlways
  Rotating <- MCRotating
  Attached <- MCAttached
  DeltaIds <- MCDeltaIds
  Differencing = {detections}
  Alarms <- MCAlarms
  Shown <- MCShown
  MaxMetrics = 2
  IntMin = 0
  IntMax = 2
  MaxItems = 2
  MaxSeq = 4
  MaxTotal = 2
  MaxDamaged = 0
  MaxRestarts = 0
  MaxReaderRestarts = 0
  EventsBy = 2
INVARIANT DeltasAddUp
CHECK_DEADLOCK FALSE
