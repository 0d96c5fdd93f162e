SPECIFICATION FairSpec
CONSTANTS
  esc = esc
  detections = detections
  vacant = vacant
  unwritten = unwritten
  Nothing = Nothing
  Always <- MCAlways
  Rotating <- MCRotating
  Attached <- MCAttached
  DeltaIds <- MCDeltaIds
  Differencing = {detections}
  Alarms <- MCAlarms
  Shown <- MCShown
  MaxMetrics = 3
  IntMin = 0
  IntMax = 1
  MaxItems = 2
  MaxSeq = 4
  MaxTotal = 2
  MaxDamaged = 1
  MaxRestarts = 1
  MaxReaderRestarts = 1
  EventsBy = 2
INVARIANTS TypeOK ShowsTheNewest RotationIsFair
PROPERTY AlarmGetsOut
CHECK_DEADLOCK FALSE
